---- MODULE Spec2Model ----
(***************************************************************************)
(* A model of schemaspec: type adapters (adapters.py), schema items and    *)
(* schema tables with parse_data (schema.py).                              *)
(*                                                                         *)
(* Python values are tagged records:                                       *)
(*   [t |-> "none"]                      None                              *)
(*   [t |-> "bool",  b |-> TRUE]         bool                              *)
(*   [t |-> "int",   i |-> 1]            int                               *)
(*   [t |-> "float", h |-> 3]            float, counted in halves (1.5)    *)
(*   [t |-> "str",   s |-> <<"x">>]      str, a sequence of characters     *)
(*   [t |-> "path",  s |-> <<"x">>]      pathlib.Path, its canonical text  *)
(*   [t |-> "list",  l |-> <<v1, v2>>]   list                              *)
(*   [t |-> "dict",  d |-> [k |-> v]]    dict with string keys             *)
(*   [t |-> "obj",   f |-> [k |-> v]]    a namespace record and the        *)
(*                                       attributes that are set on it     *)
(*   [t |-> "obj",   f |-> ..., id |-> n] a record that is held in two     *)
(*                                       places: the same id is the same   *)
(*                                       object, whatever is set on it     *)
(*   [t |-> "raise", e |-> "KeyError"]   an exception leaving a call       *)
(***************************************************************************)
EXTENDS Integers, Sequences, FiniteSets, TLC

VARIABLES
    schema,      \* the root SchemaTable
    pc,          \* the call made last: "idle" before any, else its name
    namespace,   \* parse_data: the namespace record, as the call left it
    data,        \* parse_data: the caller's dict, as the call left it
    error_mode,  \* parse_data: the error mode passed
    ns0,         \* parse_data: the namespace argument before the call (None: none passed)
    data0,       \* parse_data: the caller's dict before the call
    log,         \* parse_data: the items and subtables processed, in order
    ret,         \* the value returned by the call, or the exception raised
    adapter,     \* adapter calls: the adapter called
    arg,         \* adapter calls: the argument passed
    fe_keys,        \* format_export: the keys passed
    fe_use_fullname, \* format_export: the flag passed
    fe_show_help,   \* format_export: the flag passed
    called_item, \* item calls: the SchemaItem called
    kept,        \* a namespace an earlier parse_data returned and the caller kept
    declared     \* building: the names add_item and add_subtable were called with
                 \* for the first time, for each table in the order of the calls

vars == <<schema, pc, namespace, data, error_mode, ns0, data0, log, ret, adapter, arg,
          fe_keys, fe_use_fullname, fe_show_help, called_item, kept, declared>>

-----------------------------------------------------------------------------
(* Values *)

None == [t |-> "none"]
PyBool(b) == [t |-> "bool", b |-> b]
PyInt(i) == [t |-> "int", i |-> i]
PyFloat(h) == [t |-> "float", h |-> h]
PyStr(s) == [t |-> "str", s |-> s]
PyPath(s) == [t |-> "path", s |-> s]
PyList(l) == [t |-> "list", l |-> l]
PyDict(d) == [t |-> "dict", d |-> d]
PyObj(f) == [t |-> "obj", f |-> f]
Shared(id, f) == [t |-> "obj", f |-> f, id |-> id]
Raise(e) == [t |-> "raise", e |-> e]

True == PyBool(TRUE)
False == PyBool(FALSE)

IsRaise(v) == v.t = "raise"

\* The float that is not a number, as a count of halves no number has.
NaN == PyFloat(-99)

\* An isinstance that goes by the numeric value: a float without a fraction
\* passes for an int, and an int passes for a float.
IsInstanceByValue(v, cls) ==
    CASE cls = "bool" -> v.t = "bool"
      [] cls = "int" -> v.t \in {"int", "bool"} \/ (v.t = "float" /\ v.h >= 0 /\ v.h % 2 = 0)
      [] cls = "float" -> v.t \in {"float", "int"}
      [] cls = "str" -> v.t = "str"
      [] cls = "list" -> v.t = "list"
      [] cls = "dict" -> v.t = "dict"
      [] cls = "path" -> v.t = "path"
      [] OTHER -> FALSE

\* isinstance(value, cls): bool is a subclass of int.
IsInstance(v, cls) ==
    CASE cls = "bool" -> v.t = "bool"
      [] cls = "int" -> v.t \in {"int", "bool"}
      [] cls = "float" -> v.t = "float"
      [] cls = "str" -> v.t = "str"
      [] cls = "list" -> v.t = "list"
      [] cls = "dict" -> v.t = "dict"
      [] cls = "path" -> v.t = "path"
      [] OTHER -> FALSE

IsNumber(v) == v.t \in {"bool", "int", "float"}

\* The numeric value of a bool, int or float, in halves.
Halves(v) ==
    CASE v.t = "bool" -> IF v.b THEN 2 ELSE 0
      [] v.t = "int" -> 2 * v.i
      [] v.t = "float" -> v.h

\* Python's ==: numbers compare by value across bool, int and float, and
\* nan equals nothing; everything else compares structurally.
PyEq(a, b) ==
    IF IsNumber(a) /\ IsNumber(b)
    THEN a # NaN /\ b # NaN /\ Halves(a) = Halves(b)
    ELSE a = b

\* `value in choices` for a tuple of choices.
InTuple(v, choices) == \E i \in 1..Len(choices) : PyEq(v, choices[i])

-----------------------------------------------------------------------------
(* Text: a str whose characters are kept one by one *)

Join(seqs, sep) ==
    LET J[i \in 0..Len(seqs)] ==
            IF i = 0 THEN <<>>
            ELSE IF i = 1 THEN seqs[1]
            ELSE J[i - 1] \o sep \o seqs[i]
    IN J[Len(seqs)]

Digit(n) == CASE n = 0 -> "0" [] n = 1 -> "1" [] n = 2 -> "2" [] n = 3 -> "3"
              [] n = 4 -> "4" [] n = 5 -> "5" [] n = 6 -> "6" [] n = 7 -> "7"
              [] n = 8 -> "8" [] n = 9 -> "9"

RECURSIVE Digits(_)
Digits(n) == IF n < 10 THEN <<Digit(n)>> ELSE Digits(n \div 10) \o <<Digit(n % 10)>>

\* f"{value}" for an int, a bool (an int to the adapter) and a float.
FormatNumber(v) ==
    CASE v.t = "bool" -> IF v.b THEN <<"T", "r", "u", "e">> ELSE <<"F", "a", "l", "s", "e">>
      [] v.t = "int" -> IF v.i < 0 THEN <<"-">> \o Digits(-v.i) ELSE Digits(v.i)
      [] v.t = "float" ->
            IF v = NaN THEN <<"n", "a", "n">>
            ELSE LET m == IF v.h < 0 THEN -v.h ELSE v.h
                 IN (IF v.h < 0 THEN <<"-">> ELSE <<>>) \o Digits(m \div 2)
                    \o <<".">> \o (IF m % 2 = 1 THEN <<"5">> ELSE <<"0">>)

-----------------------------------------------------------------------------
(* Type adapters (adapters.py).  An adapter is a record:                   *)
(*   [a |-> "Bool" | "Int" | "Float" | "String", choices |-> <<...>>]      *)
(*   [a |-> "Path"]   [a |-> "List", elem |-> adapter]                     *)
(*   [a |-> "Table", table |-> table]   (a SchemaTable used as adapter)    *)

BoolAdapter(choices) == [a |-> "Bool", choices |-> choices]
IntAdapter(choices) == [a |-> "Int", choices |-> choices]
FloatAdapter(choices) == [a |-> "Float", choices |-> choices]
StringAdapter(choices) == [a |-> "String", choices |-> choices]
PathAdapter == [a |-> "Path"]
ListAdapter(elem) == [a |-> "List", elem |-> elem]
TableAdapter(table) == [a |-> "Table", table |-> table]

\* The class each subgroup adapter tests with isinstance.
AdapterClass(ad) ==
    CASE ad.a = "Bool" -> "bool"
      [] ad.a = "Int" -> "int"
      [] ad.a = "Float" -> "float"
      [] ad.a = "String" -> "str"

\* SubgroupTypeAdapter.is_valid: no choices, or one of the choices.
SubgroupIsValid(ad, v) == ad.choices = <<>> \/ InTuple(v, ad.choices)

\* TypeAdapter.is_valid, the protocol's default body.
ProtocolIsValid(v) == TRUE

\* pathlib.Path(text): the canonical text drops trailing separators, and the
\* empty path is ".".
RECURSIVE PathOf(_)
PathOf(s) ==
    IF s = <<>> THEN PyPath(<<".">>)
    ELSE IF Len(s) > 1 /\ s[Len(s)] = "/" THEN PathOf(SubSeq(s, 1, Len(s) - 1))
    ELSE PyPath(s)

\* What `for item in value` walks over: a list's elements, a str's
\* characters or a dict's keys (in insertion order; the dicts walked here
\* hold one key at most); a number, a path, None or a record is not iterable.
Iterable(v) == v.t \in {"list", "str", "dict"}
Iterate(v) ==
    CASE v.t = "list" -> v.l
      [] v.t = "str" -> [i \in 1..Len(v.s) |-> PyStr(<<v.s[i]>>)]
      [] v.t = "dict" ->
            LET order == CHOOSE s \in [1..Cardinality(DOMAIN v.d) -> DOMAIN v.d] :
                            \A k \in DOMAIN v.d : \E i \in DOMAIN s : s[i] = k
            IN [i \in DOMAIN order |-> PyStr(<<order[i]>>)]

Quoted(s) == <<"\"">> \o s \o <<"\"">>

\* Python attribute access on a namespace record.
HasAttr(ns, key) == ns.t = "obj" /\ key \in DOMAIN ns.f
GetAttr(ns, key) == IF HasAttr(ns, key) THEN ns.f[key] ELSE Raise("AttributeError")
SetAttr(ns, key, v) ==
    [ns EXCEPT !.f = [k \in DOMAIN ns.f \cup {key} |-> IF k = key THEN v ELSE ns.f[k]]]
DelAttr(ns, key) == [ns EXCEPT !.f = [k \in DOMAIN ns.f \ {key} |-> ns.f[k]]]

\* dict.pop(key) on the keys a dict holds.
Pop(d, key) == [k \in DOMAIN d \ {key} |-> d[k]]

-----------------------------------------------------------------------------
(* Schema items and tables (schema.py).                                    *)
(*   item  = [t |-> "item", short_name, possible_values, default_value,    *)
(*            description]                                                 *)
(*   table = [fullname, description, items, subtables, make_cls]           *)
(* fullname is the dotted name as the sequence of its parts (<<>> is the   *)
(* root); items and subtables are sequences in insertion order, the way a  *)
(* dict keeps its keys; make_cls is the record the factory returns.        *)

RECURSIVE AdapterIsValid(_, _), AdapterExport(_, _), AdapterConvert(_, _)
RECURSIVE ListIsValid(_, _, _), ListExport(_, _, _, _), ListConvert(_, _, _, _)
RECURSIVE ItemIsValid(_, _, _), ItemExport(_, _, _), ItemConvert(_, _, _)
RECURSIVE TableIsValid(_, _), TableExport(_, _), TableConvert(_, _)
RECURSIVE TableIsValidFields(_, _, _)
RECURSIVE TableExportFields(_, _, _, _)
RECURSIVE ParseData(_, _, _, _), ParseItems(_, _, _, _), ParseSubtables(_, _, _, _)

\* The value of a set of one element: Only({F(x) : x \in {e}}) is F(e) with
\* e evaluated once.
Only(S) == CHOOSE x \in S : TRUE

\* ListAdapter.is_valid: all(map(element_adapter.is_valid, value)).
ListIsValid(ad, items, i) ==
    IF i > Len(items) THEN True
    ELSE LET r == AdapterIsValid(ad.elem, items[i])
         IN IF r = True THEN ListIsValid(ad, items, i + 1) ELSE r

\* ListAdapter.export: None as soon as one element does not export to a str.
ListExport(ad, items, i, result) ==
    IF i > Len(items) THEN PyStr(<<"[">> \o Join(result, <<",", " ">>) \o <<"]">>)
    ELSE LET v == AdapterExport(ad.elem, items[i])
         IN IF IsRaise(v) THEN v
            ELSE IF ~IsInstance(v, "str") THEN None
            ELSE ListExport(ad, items, i + 1, Append(result, v.s))

\* ListAdapter.convert: None as soon as one element converts to None.
ListConvert(ad, items, i, result) ==
    IF i > Len(items) THEN PyList(result)
    ELSE LET v == AdapterConvert(ad.elem, items[i])
         IN IF IsRaise(v) THEN v
            ELSE IF v = None THEN None
            ELSE ListConvert(ad, items, i + 1, Append(result, v))

\* is_valid of each adapter class: True, False, or the exception it raises.
AdapterIsValid(ad, v) ==
    CASE ad.a \in {"Bool", "Int", "Float", "String"} ->
            PyBool(IsInstance(v, AdapterClass(ad)) /\ SubgroupIsValid(ad, v))
      [] ad.a = "Path" -> PyBool(IsInstance(v, "path") /\ ProtocolIsValid(v))
      [] ad.a = "List" ->
            IF ~Iterable(v) THEN Raise("TypeError") ELSE ListIsValid(ad, Iterate(v), 1)
      [] ad.a = "Table" -> TableIsValid(ad.table, v)

\* export of each adapter class: a str, None, or the exception it raises.
AdapterExport(ad, v) ==
    CASE ad.a = "Bool" ->
            IF AdapterIsValid(ad, v) # True THEN None
            ELSE PyStr(IF v.b THEN <<"t", "r", "u", "e">> ELSE <<"f", "a", "l", "s", "e">>)
      [] ad.a \in {"Int", "Float"} ->
            IF AdapterIsValid(ad, v) # True THEN None ELSE PyStr(FormatNumber(v))
      [] ad.a = "String" ->
            IF AdapterIsValid(ad, v) # True THEN None ELSE PyStr(Quoted(v.s))
      [] ad.a = "Path" ->
            IF ~IsInstance(v, "path") \/ AdapterIsValid(ad, v) # True THEN None
            ELSE PyStr(Quoted(v.s))
      [] ad.a = "List" ->
            IF ~Iterable(v) THEN Raise("TypeError") ELSE ListExport(ad, Iterate(v), 1, <<>>)
      [] ad.a = "Table" -> TableExport(ad.table, v)

\* convert of each adapter class: a value, None, or the exception it raises.
AdapterConvert(ad, p) ==
    CASE ad.a \in {"Bool", "Int", "Float", "String"} ->
            IF ~IsInstance(p, AdapterClass(ad)) \/ AdapterIsValid(ad, p) # True THEN None ELSE p
      [] ad.a = "Path" ->
            IF ~IsInstance(p, "str") THEN None
            ELSE LET path == PathOf(p.s)
                 IN IF AdapterIsValid(ad, path) = True THEN path ELSE None
      [] ad.a = "List" ->
            IF ~IsInstance(p, "list") THEN None ELSE ListConvert(ad, p.l, 1, <<>>)
      [] ad.a = "Table" -> TableConvert(ad.table, p)

\* SchemaItem.is_valid: some adapter finds the value valid.
ItemIsValid(item, v, i) ==
    IF i > Len(item.possible_values) THEN False
    ELSE LET r == AdapterIsValid(item.possible_values[i], v)
         IN IF r = False THEN ItemIsValid(item, v, i + 1) ELSE r

\* SchemaItem.export: the first export that is not None.
ItemExport(item, v, i) ==
    IF i > Len(item.possible_values) THEN None
    ELSE LET r == AdapterExport(item.possible_values[i], v)
         IN IF r # None THEN r ELSE ItemExport(item, v, i + 1)

\* SchemaItem.convert: the first conversion that is not None.
ItemConvert(item, p, i) ==
    IF i > Len(item.possible_values) THEN None
    ELSE LET r == AdapterConvert(item.possible_values[i], p)
         IN IF r # None THEN r ELSE ItemConvert(item, p, i + 1)

\* The characters of the names given to items, subtables and attributes.
Spelling(name) ==
    CASE name = "ab" -> <<"a", "b">>
      [] name \in {"a", "b", "c", "d", "k"} -> <<name>>
      [] name = "x" -> <<"x">>
      [] name = "y" -> <<"y">>
      [] name = "g" -> <<"g">>
      [] name = "zz" -> <<"z", "z">>
      [] name = "inl" -> <<"i", "n", "l">>
      [] name = "tags" -> <<"t", "a", "g", "s">>
      [] name = "beta" -> <<"b", "e", "t", "a">>
      [] name = "game" -> <<"g", "a", "m", "e">>
      [] name = "name" -> <<"n", "a", "m", "e">>
      [] name = "deep" -> <<"d", "e", "e", "p">>
      [] name = "flag" -> <<"f", "l", "a", "g">>
      [] name = "alpha" -> <<"a", "l", "p", "h", "a">>
      [] name = "count" -> <<"c", "o", "u", "n", "t">>
      [] name = "gpath" -> <<"g", "p", "a", "t", "h">>

\* The loop of SchemaTable.is_valid over the items and then the subtables:
\* each key must be in attrs, and what attrs holds for it must be valid;
\* nothing may be left in attrs at the end.
TableIsValidFields(table, attrs, i) ==
    LET n == Len(table.items)
    IN IF i > n + Len(table.subtables) THEN PyBool(DOMAIN attrs = {})
       ELSE LET key == IF i <= n THEN table.items[i].short_name
                       ELSE table.subtables[i - n].name
            IN IF key \notin DOMAIN attrs THEN False
               ELSE LET r == IF i <= n THEN ItemIsValid(table.items[i], attrs[key], 1)
                             ELSE TableIsValid(table.subtables[i - n].table, attrs[key])
                    IN IF r # True THEN r
                       ELSE TableIsValidFields(table, Pop(attrs, key), i + 1)

\* SchemaTable.is_valid.  vars(value) needs a record; the comprehension walks
\* the attribute names and unpacks each into k and v, which only a name of two
\* characters allows: attrs holds the second character of each name under the
\* first (the records explored hold no two names with one first character).
TableIsValid(table, v) ==
    IF v.t # "obj" THEN Raise("TypeError")
    ELSE IF \E name \in DOMAIN v.f : Len(Spelling(name)) # 2 THEN Raise("ValueError")
    ELSE LET ks == {Spelling(name)[1] : name \in DOMAIN v.f} \ {"_"}
             attrs == [k \in ks |->
                        PyStr(<<Spelling(CHOOSE name \in DOMAIN v.f :
                                            Spelling(name)[1] = k)[2]>>)]
         IN TableIsValidFields(table, attrs, 1)

\* The `k = export` entries of SchemaTable.export, items first, then subtables.
TableExportFields(table, v, i, result) ==
    LET n == Len(table.items)
    IN IF i > n + Len(table.subtables) THEN PyStr(Join(result, <<",", " ">>))
       ELSE LET k == IF i <= n THEN table.items[i].short_name
                     ELSE table.subtables[i - n].name
                field == GetAttr(v, k)
                text == IF IsRaise(field) THEN field
                        ELSE IF i <= n THEN ItemExport(table.items[i], field, 1)
                        ELSE TableExport(table.subtables[i - n].table, field)
            IN IF IsRaise(text) THEN text
               ELSE LET rhs == IF text = None THEN <<"N", "o", "n", "e">> ELSE text.s
                    IN TableExportFields(table, v, i + 1,
                                         Append(result, <<k, " ", "=", " ">> \o rhs))

\* SchemaTable.export: the brace-delimited entries; never None.
TableExport(table, v) ==
    LET l == TableExportFields(table, v, 1, <<>>)
    IN IF IsRaise(l) THEN l ELSE PyStr(<<"{", " ">> \o l.s \o <<" ", "}">>)

\* SchemaTable.convert: parse_data on a fresh record, in the default error
\* mode of parse_data.
TableConvert(table, p) ==
    IF ~IsInstance(p, "dict") THEN None
    ELSE LET r == ParseData(table, p.d, table.make_cls, "FAIL")
         IN IF IsRaise(r.out) THEN r.out ELSE r.ns

\* The name of a table in the message of a conversion error.
TableLabel(table) == IF table.fullname = <<>> THEN <<"root">> ELSE table.fullname

ConversionError(table, item, value) ==
    [t |-> "raise", e |-> "ValueError", field |-> item.short_name,
     table |-> TableLabel(table), value |-> value]

\* A parse_data that treats a converted value like a default: only a field
\* that is not set takes it.
SetConvertedIfUnset(ns, key, result) ==
    IF HasAttr(ns, key) THEN ns ELSE SetAttr(ns, key, result)

\* parse_data on a converted value: the field is set to it.
SetConverted(ns, key, result) == SetAttr(ns, key, result)

\* An error mode Remove that sets the default where there is nothing to remove.
ApplyErrorModeFallThrough(table, schema_item, ns, mode, value) ==
    LET key == schema_item.short_name
    IN CASE mode = "FAIL" ->
                [ns |-> ns, out |-> ConversionError(table, schema_item, value)]
         [] mode = "IGNORE" -> [ns |-> ns, out |-> None]
         [] mode = "REMOVE" /\ HasAttr(ns, key) -> [ns |-> DelAttr(ns, key), out |-> None]
         [] mode \in {"SET_DEFAULT", "REMOVE"} ->
                [ns |-> SetAttr(ns, key, schema_item.default_value), out |-> None]
         [] mode = "SET_NONE" -> [ns |-> SetAttr(ns, key, None), out |-> None]
         [] OTHER -> [ns |-> ns, out |-> None]

\* parse_data on a value that converted to None: the match on error_mode.
\* The namespace afterwards, and the exception raised (None: none).
ApplyErrorMode(table, schema_item, ns, mode, value) ==
    LET key == schema_item.short_name
    IN CASE mode = "FAIL" ->
                [ns |-> ns, out |-> ConversionError(table, schema_item, value)]
         [] mode = "IGNORE" -> [ns |-> ns, out |-> None]
         [] mode = "REMOVE" /\ HasAttr(ns, key) -> [ns |-> DelAttr(ns, key), out |-> None]
         [] mode = "SET_DEFAULT" ->
                [ns |-> SetAttr(ns, key, schema_item.default_value), out |-> None]
         [] mode = "SET_NONE" -> [ns |-> SetAttr(ns, key, None), out |-> None]
         [] OTHER -> [ns |-> ns, out |-> None]

\* A parse_data that defaults without looking at the field.
ApplyDefaultAlways(ns, schema_item) ==
    SetAttr(ns, schema_item.short_name, schema_item.default_value)

\* parse_data on an item that data does not hold: the default, on a field
\* that is not set.
ApplyDefault(ns, schema_item) ==
    IF ~HasAttr(ns, schema_item.short_name)
    THEN SetAttr(ns, schema_item.short_name, schema_item.default_value)
    ELSE ns

\* One pass of the first loop of parse_data, for one declared item.  st is
\* the state of the call: the namespace, what is left of data, the items and
\* subtables processed so far, and the exception raised (None while none is).
ParseItem(table, schema_item, st, mode) ==
    LET key == schema_item.short_name
        entry(conv) == [k |-> "item", table |-> table.fullname, name |-> key, conv |-> conv]
    IN
    IF key \in DOMAIN st.data
    THEN LET value == st.data[key]
             popped == [st EXCEPT !.data = Pop(st.data, key)]
             next(result) ==
                IF IsRaise(result)
                THEN [popped EXCEPT !.out = result, !.log = Append(st.log, entry("raised"))]
                ELSE IF result # None
                THEN [popped EXCEPT !.ns = SetConverted(st.ns, key, result),
                                    !.log = Append(st.log, entry("converted"))]
                ELSE Only({[popped EXCEPT !.ns = m.ns, !.out = m.out,
                                          !.log = Append(st.log, entry("failed"))] :
                            m \in {ApplyErrorMode(table, schema_item, st.ns, mode, value)}})
         IN Only({next(result) : result \in {ItemConvert(schema_item, value, 1)}})
    ELSE [st EXCEPT !.ns = ApplyDefault(st.ns, schema_item),
                    !.log = Append(st.log, entry("absent"))]

\* The first loop of parse_data, from item i on; it ends with the exception.
ParseItems(table, i, st, mode) ==
    IF i > Len(table.items) \/ IsRaise(st.out) THEN st
    ELSE Only({ParseItems(table, i + 1, s, mode) :
                    s \in {ParseItem(table, table.items[i], st, mode)}})

\* One pass of the second loop of parse_data, for one declared subtable.
ParseSubtable(table, sub, st, mode) ==
    LET key == sub.name
        subtable == sub.table
        subdata == IF key \in DOMAIN st.data THEN st.data[key] ELSE PyDict(<<>>)
        popped == [st EXCEPT !.data = Pop(st.data, key),
                             !.log = Append(st.log, [k |-> "subtable", table |-> table.fullname,
                                                     name |-> key, conv |-> "subtable"])]
        subspace == IF HasAttr(st.ns, key) THEN st.ns.f[key] ELSE subtable.make_cls
        next(r) ==
            IF IsRaise(r.out)
            \* the record the namespace holds was changed in place; a fresh one
            \* is lost with the exception
            THEN [popped EXCEPT !.log = popped.log \o r.log, !.out = r.out,
                                !.ns = IF HasAttr(st.ns, key) THEN SetAttr(st.ns, key, r.ns)
                                       ELSE st.ns]
            ELSE [popped EXCEPT !.log = popped.log \o r.log, !.ns = SetAttr(st.ns, key, r.ns)]
    IN IF ~IsInstance(subdata, "dict")
       THEN [popped EXCEPT !.out = [t |-> "raise", e |-> "TypeError",
                                    table |-> subtable.fullname]]
       ELSE Only({next(r) : r \in {ParseData(subtable, subdata.d, subspace, mode)}})

\* A parse_data that leaves the subtables out.
ParseSubtablesSkipped(table, i, st, mode) == st

\* The second loop of parse_data, from subtable i on.
ParseSubtables(table, i, st, mode) ==
    IF i > Len(table.subtables) \/ IsRaise(st.out) THEN st
    ELSE Only({ParseSubtables(table, i + 1, s, mode) :
                    s \in {ParseSubtable(table, table.subtables[i], st, mode)}})

\* A parse_data that lets the keys it did not consume pass.
ParseEndAnyKeys(st) == st

\* The end of parse_data: data must be empty by now.
ParseEnd(st) ==
    IF IsRaise(st.out) THEN st
    ELSE IF DOMAIN st.data # {} THEN [st EXCEPT !.out = Raise("KeyError")]
    ELSE st

\* A parse_data that gives the namespace back as it was when it fails.
ParseDataRolledBack(table, d, ns, mode) ==
    LET start == [ns |-> IF ns = None THEN table.make_cls ELSE ns,
                  data |-> d, log |-> <<>>, out |-> None]
        undone(r) == IF IsRaise(r.out) THEN [r EXCEPT !.ns = start.ns] ELSE r
    IN Only({undone(ParseEnd(subs)) :
                subs \in {ParseSubtables(table, 1, items, mode) :
                            items \in {ParseItems(table, 1, start, mode)}}})

\* SchemaTable.parse_data(data, namespace, error_mode).  The result is the
\* final state of the call: ns is the namespace (returned when out is None),
\* data is what the call left in the caller's dict, out is the exception.
ParseData(table, d, ns, mode) ==
    LET start == [ns |-> IF ns = None THEN table.make_cls ELSE ns,
                  data |-> d, log |-> <<>>, out |-> None]
    IN Only({ParseEnd(subs) :
                subs \in {ParseSubtables(table, 1, items, mode) :
                            items \in {ParseItems(table, 1, start, mode)}}})

-----------------------------------------------------------------------------
(* Help texts (schema.py, adapters.py).  A text is a sequence of pieces: a  *)
(* name, a fixed phrase, or one character; a line end is the piece "\n".    *)

RECURSIVE TypeSpec(_), TableTypeSpec(_), TableHelpStr(_), SplitLines(_)

\* str.splitlines(): the lines of a text, without their line ends.
SplitLines(text) ==
    IF text = <<>> THEN <<>>
    ELSE IF \E i \in 1..Len(text) : text[i] = "\n"
    THEN LET i == CHOOSE i \in 1..Len(text) :
                    text[i] = "\n" /\ \A j \in 1..(i - 1) : text[j] # "\n"
         IN <<SubSeq(text, 1, i - 1)>> \o SplitLines(SubSeq(text, i + 1, Len(text)))
    ELSE <<text>>

\* textwrap.indent(text, prefix, predicate): the prefix before every line
\* (always), or before the lines that are not blank (the default predicate).
Indent(text, prefix, always) ==
    LET lines == SplitLines(text)
        blank(l) == \A i \in 1..Len(l) : l[i] \in {" ", "  "}
        out == [i \in 1..Len(lines) |->
                    IF always \/ ~blank(lines[i]) THEN prefix \o lines[i] ELSE lines[i]]
    IN Join(out, <<"\n">>)
       \o (IF text # <<>> /\ text[Len(text)] = "\n" THEN <<"\n">> ELSE <<>>)

\* textwrap.fill on a description.  The descriptions of the schemas explored
\* are one short word, which fits the line: the text is the indent and the
\* word, and an empty description gives an empty text.
Fill(text, initial_indent) == IF text = <<>> THEN <<>> ELSE initial_indent \o text

\* SchemaTable._fullname_of
FullnameOf(table, name) == Append(table.fullname, name)

\* The dotted name of a table.
Dotted(fullname) == Join([i \in 1..Len(fullname) |-> <<fullname[i]>>], <<".">>)

\* type_spec of each adapter class.  With choices a subgroup adapter joins
\* the exports of its choices.
TypeSpec(ad) ==
    CASE ad.a \in {"Bool", "Int", "Float", "String"} /\ ad.choices # <<>> ->
            Join([i \in 1..Len(ad.choices) |-> AdapterExport(ad, ad.choices[i]).s], <<" | ">>)
      [] ad.a = "Bool" -> <<"true | false">>
      [] ad.a = "Int" -> <<"<integer>">>
      [] ad.a = "Float" -> <<"<float>">>
      [] ad.a = "String" -> <<"\"<string>\"">>
      [] ad.a = "Path" -> <<"\"<path>\"">>
      [] ad.a = "List" -> <<"[">> \o TypeSpec(ad.elem) \o <<",]">>
      [] ad.a = "Table" -> TableTypeSpec(ad.table)

\* SchemaItem.type_spec, set by __post_init__.
ItemTypeSpec(item) ==
    Join([i \in 1..Len(item.possible_values) |-> TypeSpec(item.possible_values[i])],
         <<" | ">>)

\* SchemaTable.type_spec
TableTypeSpec(table) ==
    LET n == Len(table.items)
        l == [i \in 1..(n + Len(table.subtables)) |->
                IF i <= n
                THEN <<table.items[i].short_name, " = ">> \o ItemTypeSpec(table.items[i])
                ELSE <<table.subtables[i - n].name, " = ">>
                        \o TableTypeSpec(table.subtables[i - n].table)]
    IN <<"{", " ">> \o Join(l, <<",", " ">>) \o <<" ", "}">>

\* SchemaItem.default_input, set by __post_init__.
DefaultInput(item) == ItemExport(item, item.default_value, 1).s

\* SchemaItem.help_str, set by __post_init__.
ItemHelpStr(item) ==
    LET desc == Fill(item.description, <<>>)
        sects == (IF desc # <<>> THEN <<desc>> ELSE <<>>)
                    \o <<(<<"Default: ">> \o DefaultInput(item))>>
        usage == <<item.short_name, " = ">> \o ItemTypeSpec(item)
    IN usage \o <<"\n">> \o Indent(Join(sects, <<"\n">>), <<"  ">>, FALSE)

\* SchemaTable.help_str()
TableHelpStr(table) ==
    LET name == IF table.fullname # <<>>
                THEN <<"[">> \o Dotted(table.fullname) \o <<"]", "\n">>
                ELSE <<>>
        header == IF table.description # <<>>
                  THEN name \o table.description \o <<"\n", "\n">>
                  ELSE name
        vals == Join([i \in 1..Len(table.items) |-> ItemHelpStr(table.items[i])], <<"\n">>)
        subs == Join([j \in 1..Len(table.subtables) |->
                        TableHelpStr(table.subtables[j].table)], <<"\n", "\n">>)
    IN header \o Join(SelectSeq(<<vals, subs>>, LAMBDA x : x # <<>>), <<"\n", "\n">>)

-----------------------------------------------------------------------------
(* format_export (schema.py).  A key of `keys` is the sequence of the parts *)
(* its dots separate: "game.deep.flag" is <<"game", "deep", "flag">>.       *)

RECURSIVE FormatExport(_, _, _, _, _), FormatExportKeys(_, _, _, _, _, _)

\* The keys format_export walks over: the keys passed, or every item and
\* then every subtable when none is passed.
ExportKeys(table, keys) ==
    IF keys # <<>> THEN keys
    ELSE [i \in 1..Len(table.items) |-> <<table.items[i].short_name>>]
         \o [j \in 1..Len(table.subtables) |-> <<table.subtables[j].name>>]

\* "in self.__items" and "in self.__subtables"
HasItem(table, key) == \E i \in 1..Len(table.items) : table.items[i].short_name = key
HasSubtable(table, key) == \E j \in 1..Len(table.subtables) : table.subtables[j].name = key
ItemOf(table, key) ==
    table.items[CHOOSE i \in 1..Len(table.items) : table.items[i].short_name = key]
SubtableOf(table, key) ==
    table.subtables[CHOOSE j \in 1..Len(table.subtables) : table.subtables[j].name = key].table

\* The line of one item: `lhs = rhs`, under its help text when asked for.
\* The text, or the exception of the attribute read or of the export.
FormatItem(table, schema_item, ns, use_fullname, show_help) ==
    LET field == GetAttr(ns, schema_item.short_name)
        rhs == IF IsRaise(field) THEN field ELSE ItemExport(schema_item, field, 1)
        lhs == IF use_fullname THEN Dotted(FullnameOf(table, schema_item.short_name))
               ELSE <<schema_item.short_name>>
        val == lhs \o <<" = ">> \o (IF rhs = None THEN <<"N", "o", "n", "e">> ELSE rhs.s)
    IN IF IsRaise(rhs) THEN rhs
       ELSE IF show_help
       THEN PyStr(Indent(ItemHelpStr(schema_item), <<"# ">>, TRUE) \o <<"\n">> \o val)
       ELSE PyStr(val)

\* The loop of format_export over the keys ks: st holds vals, tables and the
\* exception raised (None while none is).
FormatExportKeys(table, ns, ks, st, use_fullname, show_help) ==
    IF ks = <<>> \/ IsRaise(st.out) THEN st
    ELSE LET key == Head(ks)
             root_key == Head(key)
             child_keys == IF Len(key) > 1 THEN <<Tail(key)>> ELSE <<>>
             step(r) ==
                IF IsRaise(r) THEN [st EXCEPT !.out = r]
                ELSE IF HasItem(table, root_key)
                THEN [st EXCEPT !.vals = Append(st.vals, r.s)]
                ELSE [st EXCEPT !.tables = Append(st.tables, r.s)]
             result ==
                IF HasItem(table, root_key)
                THEN FormatItem(table, ItemOf(table, root_key), ns,
                                use_fullname, show_help)
                ELSE IF HasSubtable(table, root_key)
                THEN LET subtable_ns == GetAttr(ns, root_key)
                     IN IF IsRaise(subtable_ns) THEN subtable_ns
                        ELSE FormatExport(SubtableOf(table, root_key), subtable_ns,
                                          child_keys, use_fullname, show_help)
                ELSE Raise("KeyError")
         IN Only({FormatExportKeys(table, ns, Tail(ks), s, use_fullname, show_help) :
                    s \in {step(r) : r \in {result}}})

\* SchemaTable.format_export(namespace, keys, use_fullname, show_help): the
\* text, or the exception raised.
FormatExport(table, ns, keys, use_fullname, show_help) ==
    LET name == IF ~use_fullname /\ table.fullname # <<>>
                THEN <<"[">> \o Dotted(table.fullname) \o <<"]", "\n">>
                ELSE <<>>
        header == IF show_help /\ table.description # <<>>
                  THEN name \o Fill(table.description, <<"# ">>) \o <<"\n", "\n">>
                  ELSE name
        finish(st) ==
            IF IsRaise(st.out) THEN st.out
            ELSE LET sep == IF show_help THEN <<"\n", "\n">> ELSE <<"\n">>
                     tables == IF st.vals # <<>> THEN <<Join(st.vals, sep)>> \o st.tables
                               ELSE st.tables
                 IN PyStr(header \o Join(tables, <<"\n", "\n">>))
    IN Only({finish(st) :
                st \in {FormatExportKeys(table, ns, ExportKeys(table, keys),
                                         [vals |-> <<>>, tables |-> <<>>, out |-> None],
                                         use_fullname, show_help)}})

-----------------------------------------------------------------------------
(* Construction (schema.py) *)

\* SchemaTable.__init__
NewTable(make_cls, full_name, description) ==
    [fullname |-> full_name, description |-> description, items |-> <<>>,
     subtables |-> <<>>, make_cls |-> make_cls]

\* dict[key] = value on a dict kept as a sequence of entries, names being
\* their keys: a new key goes last, a known key keeps its place.
DictSet(entries, names, key, entry) ==
    IF \E i \in 1..Len(entries) : names[i] = key
    THEN [i \in 1..Len(entries) |-> IF names[i] = key THEN entry ELSE entries[i]]
    ELSE Append(entries, entry)

\* A SchemaItem that takes its default as it comes.
NewItemUnchecked(name, possible_values, default, description) ==
    [t |-> "item", short_name |-> name, possible_values |-> possible_values,
     default_value |-> default, description |-> description]

\* SchemaItem.__post_init__: the item, or the ValueError for a default that no
\* adapter exports.
NewItem(name, possible_values, default, description) ==
    LET item == [t |-> "item", short_name |-> name, possible_values |-> possible_values,
                 default_value |-> default, description |-> description]
    IN Only({IF IsRaise(temp) THEN temp
             ELSE IF temp = None THEN Raise("ValueError")
             ELSE item :
                temp \in {ItemExport(item, default, 1)}})

\* SchemaTable.add_item: the table afterwards (unchanged when the item's
\* construction raises).
AddItem(table, name, possible_values, default, description) ==
    Only({IF IsRaise(item) THEN tbl
          ELSE [tbl EXCEPT !.items =
                    DictSet(tbl.items, [i \in 1..Len(tbl.items) |-> tbl.items[i].short_name],
                            name, item)] :
            tbl \in {table}, item \in {NewItem(name, possible_values, default, description)}})

\* SchemaTable.add_subtable: the table afterwards, holding the new subtable.
AddSubtable(table, make_cls, name, description) ==
    Only({[tbl EXCEPT !.subtables =
                DictSet(tbl.subtables,
                        [j \in 1..Len(tbl.subtables) |-> tbl.subtables[j].name], name,
                        [name |-> name,
                         table |-> NewTable(make_cls, FullnameOf(tbl, name), description)])] :
            tbl \in {table}})

\* The table that add_subtable returned is the one the parent holds: the
\* parent, after calls on the returned table have made it `subtable`.
Populated(table, name, subtable) ==
    [table EXCEPT !.subtables =
        [j \in 1..Len(table.subtables) |->
            IF table.subtables[j].name = name
            THEN [table.subtables[j] EXCEPT !.table = subtable]
            ELSE table.subtables[j]]]

-----------------------------------------------------------------------------
(* The schemas and inputs explored *)

Str(c) == PyStr(<<c>>)

\* A schema of nested tables, after tests/manual.py: two items, a subtable
\* "game" with two items and a subtable "deep" of its own.
PopulateDeep(t) == AddItem(t, "flag", <<BoolAdapter(<<>>)>>, True, <<>>)

PopulateGame(t) ==
    LET game == AddSubtable(
                    AddItem(AddItem(t, "name", <<StringAdapter(<<>>)>>, PyStr(<<>>), <<>>),
                            "gpath", <<BoolAdapter(<<False>>), PathAdapter>>,
                            PyPath(<<"p">>), <<>>),
                    PyObj(<<>>), "deep", <<>>)
    IN Populated(game, "deep", PopulateDeep(SubtableOf(game, "deep")))

SchemaNested ==
    LET root == AddSubtable(
                    AddItem(AddItem(NewTable(PyObj(<<>>), <<>>, <<"S">>),
                                    "alpha", <<StringAdapter(<<>>)>>, Str("e"), <<"A">>),
                            "count", <<IntAdapter(<<PyInt(1), PyInt(2)>>)>>, PyInt(1), <<>>),
                    PyObj([name |-> Str("g")]), "game", <<"G">>)
    IN Populated(root, "game", PopulateGame(SubtableOf(root, "game")))

\* The schema of nested tables with factories that set no field.
SchemaPlain ==
    LET root == AddSubtable(
                    AddItem(AddItem(NewTable(PyObj(<<>>), <<>>, <<"S">>),
                                    "alpha", <<StringAdapter(<<>>)>>, Str("e"), <<"A">>),
                            "count", <<IntAdapter(<<PyInt(1), PyInt(2)>>)>>, PyInt(1), <<>>),
                    PyObj(<<>>), "game", <<"G">>)
    IN Populated(root, "game", PopulateGame(SubtableOf(root, "game")))

\* A schema whose first item takes an inline table (a SchemaTable as adapter)
\* or a string, followed by a list item and a string item with choices.
PointTable ==
    AddItem(NewTable(PyObj(<<>>), <<"point">>, <<>>),
            "x", <<StringAdapter(<<>>)>>, Str("e"), <<>>)

SchemaInline ==
    AddItem(AddItem(AddItem(NewTable(PyObj(<<>>), <<>>, <<"I">>),
                            "inl", <<TableAdapter(PointTable), StringAdapter(<<>>)>>,
                            PyObj([x |-> Str("e")]), <<>>),
                    "tags", <<ListAdapter(IntAdapter(<<>>))>>, PyList(<<>>), <<>>),
            "beta", <<StringAdapter(<<Str("e"), Str("d")>>)>>, Str("e"), <<"B">>)

\* A table whose one item has a name of two characters.
PairTable ==
    AddItem(NewTable(PyObj(<<>>), <<"pair">>, <<>>),
            "ab", <<StringAdapter(<<>>)>>, Str("e"), <<>>)

Schemas == {SchemaNested, SchemaInline}

\* A schema whose table gives one name to an item and to a subtable: both
\* are kept in the one field "g" of the namespace.  The item's default is a
\* record, one object wherever it is held.
PopulateShadow(t) == AddItem(t, "y", <<IntAdapter(<<>>)>>, PyInt(1), <<>>)

SchemaShadow ==
    LET root == AddSubtable(
                    AddItem(NewTable(PyObj(<<>>), <<>>, <<"H">>),
                            "g", <<TableAdapter(PointTable)>>,
                            Shared("g", [x |-> Str("e")]), <<>>),
                    PyObj(<<>>), "g", <<>>)
    IN Populated(root, "g", PopulateShadow(SubtableOf(root, "g")))

Modes == {"IGNORE", "SET_NONE", "SET_DEFAULT", "REMOVE", "FAIL"}

\* The raw values tried for each item; "zz" is a key no table declares.
RawValues(name) ==
    CASE name = "alpha" -> {Str("d"), PyInt(7)}
      [] name = "count" -> {PyInt(2), PyInt(7)}
      [] name = "name" -> {Str("d"), PyInt(7)}
      [] name = "gpath" -> {False, Str("q"), True}
      [] name = "flag" -> {False, PyInt(0)}
      [] name = "inl" -> {PyDict([x |-> Str("d")]), PyDict([x |-> PyInt(7)]),
                          PyDict([zz |-> PyInt(7)]), Str("d"), PyInt(7)}
      [] name = "tags" -> {PyList(<<PyInt(7)>>), PyList(<<PyInt(7), Str("d")>>)}
      [] name = "beta" -> {Str("d"), Str("q")}
      [] name = "x" -> {Str("d"), PyInt(7)}
      [] name = "g" -> {PyDict([x |-> Str("d")]), PyInt(7)}
      [] name = "y" -> {PyInt(2), Str("d")}
      [] name = "zz" -> {PyInt(7)}

\* The most keys a mapping of the input holds.
MaxKeys == 2

\* Every dict over at most n of the keys, each key with one of its values.
RECURSIVE Dicts(_, _, _)
Dicts(keys, vals, n) ==
    IF keys = <<>> \/ n = 0 THEN {<<>>}
    ELSE LET key == Head(keys)
         IN Dicts(Tail(keys), vals, n)
            \cup {[k \in DOMAIN d \cup {key} |-> IF k = key THEN v ELSE d[k]] :
                    <<d, v>> \in Dicts(Tail(keys), vals, n - 1) \X vals[key]}

\* The data tried on a table: each item absent or with one of its raw values,
\* each subtable absent, a mapping tried on it, or a value that is no mapping,
\* and the undeclared key absent or present.
RECURSIVE TableInputs(_)
TableInputs(table) ==
    LET items == [i \in 1..Len(table.items) |-> table.items[i].short_name]
        subs == [i \in 1..Len(table.subtables) |-> table.subtables[i].name]
        keys == items \o SelectSeq(subs, LAMBDA k : ~HasItem(table, k)) \o <<"zz">>
        names == {keys[i] : i \in 1..Len(keys)}
        vals == [k \in names |->
                    (IF HasSubtable(table, k)
                     THEN {PyDict(d) : d \in TableInputs(SubtableOf(table, k))} \cup {PyInt(7)}
                     ELSE {})
                    \cup (IF HasSubtable(table, k) /\ ~HasItem(table, k) THEN {}
                          ELSE RawValues(k))]
    IN UNION {Dicts(keys, v, MaxKeys) : v \in {vals}}

\* The namespaces a caller passes: none, a record with nothing set, records
\* with some or all fields set.
Namespaces(table) ==
    IF HasItem(table, "alpha")
    THEN {None, PyObj(<<>>),
          PyObj([alpha |-> Str("o")]),
          PyObj([count |-> PyInt(2), game |-> PyObj([gpath |-> PyPath(<<"o">>)])]),
          PyObj([alpha |-> Str("o"), count |-> PyInt(2),
                 game |-> PyObj([name |-> Str("o"), gpath |-> False,
                                 deep |-> PyObj([flag |-> False])])])}
    ELSE IF HasItem(table, "g")
    THEN {None, PyObj(<<>>), PyObj([g |-> PyObj([x |-> Str("o")])])}
    ELSE {None, PyObj(<<>>),
          PyObj([inl |-> Str("o")]),
          PyObj([inl |-> PyObj([x |-> Str("o")]), tags |-> PyList(<<PyInt(1)>>),
                 beta |-> Str("d")])}

\* The largest int tried as a value.
MaxInt == 2

\* The most characters of a str tried as a value, and the characters.
MaxStrLen == 2
Chars == {"e", "\""}

\* The most elements of a list tried as a value, and the elements.
MaxListLen == 2
Elements == {PyInt(1), Str("e"), True}

\* Every sequence of at most n elements of S.
SeqsUpTo(S, n) == UNION {[1..m -> S] : m \in 0..n}

\* The values passed to the adapters: values of every class an adapter
\* tests for, valid ones and others.
ValuesTried ==
    {None, True, False, NaN, PyFloat(1), PyFloat(2)}
    \cup {PyInt(i) : i \in 0..MaxInt}
    \cup {PyStr(s) : s \in SeqsUpTo(Chars, MaxStrLen)}
    \cup {PyPath(<<"p">>), PyPath(<<".">>)}
    \cup {PyList(l) : l \in SeqsUpTo(Elements, MaxListLen)}
    \cup {PyDict(<<>>), PyDict([x |-> Str("d")]), PyDict([x |-> PyInt(7)]),
          PyDict([zz |-> PyInt(7)])}
    \cup {PyObj(<<>>), PyObj([x |-> Str("d")]), PyObj([x |-> PyInt(7)]),
          PyObj([ab |-> Str("d")]), PyObj([ab |-> PyInt(7)])}

\* The adapters called: every class, with and without choices, and tables
\* with and without items.
AdaptersTried ==
    {BoolAdapter(<<>>), BoolAdapter(<<False>>),
     IntAdapter(<<>>), IntAdapter(<<PyInt(1), PyInt(2)>>),
     FloatAdapter(<<>>), FloatAdapter(<<PyFloat(1)>>),
     StringAdapter(<<>>), StringAdapter(<<Str("e"), Str("d")>>),
     PathAdapter,
     ListAdapter(IntAdapter(<<>>)), ListAdapter(StringAdapter(<<>>)),
     TableAdapter(PointTable), TableAdapter(NewTable(PyObj(<<>>), <<"void">>, <<>>)),
     TableAdapter(PairTable), ListAdapter(TableAdapter(PairTable))}

\* The items called on their own: the items of the table, and items whose
\* adapters overlap or come in an order that matters.
ItemsTried(table) ==
    {table.items[i] : i \in 1..Len(table.items)}
    \cup {NewItem("k", <<IntAdapter(<<PyInt(1), PyInt(2)>>), IntAdapter(<<>>)>>, PyInt(1), <<>>),
          NewItem("k", <<StringAdapter(<<Str("d")>>), PathAdapter, BoolAdapter(<<>>)>>,
                  True, <<>>),
          NewItem("k", <<PathAdapter, StringAdapter(<<>>)>>, Str("e"), <<>>),
          NewItem("k", <<IntAdapter(<<>>), BoolAdapter(<<>>)>>, PyInt(1), <<>>),
          NewItem("k", <<ListAdapter(IntAdapter(<<>>)), IntAdapter(<<>>)>>, PyList(<<>>), <<>>),
          NewItem("k", <<TableAdapter(PointTable), TableAdapter(PairTable)>>,
                  PyObj([x |-> Str("e")]), <<>>)}

\* The most keys passed to format_export.
MaxKeyList == 2

\* A selector for every item and every subtable of a table tree.
RECURSIVE Selectors(_, _)
Selectors(table, prefix) ==
    {Append(prefix, table.items[i].short_name) : i \in 1..Len(table.items)}
    \cup UNION {{Append(prefix, table.subtables[j].name)}
                    \cup Selectors(table.subtables[j].table,
                                   Append(prefix, table.subtables[j].name)) :
                j \in 1..Len(table.subtables)}

\* The keys passed to format_export: items, subtables, dotted paths, names
\* that nothing declares.
KeysTried(table) ==
    IF HasItem(table, "alpha")
    THEN {<<"alpha">>, <<"count">>, <<"game">>, <<"game", "name">>, <<"game", "deep">>,
          <<"game", "deep", "flag">>, <<"zz">>, <<"game", "zz">>, <<"alpha", "x">>}
    ELSE IF HasItem(table, "g")
    THEN {<<"g">>, <<"g", "y">>, <<"zz">>}
    ELSE IF HasItem(table, "inl")
    THEN {<<"inl">>, <<"tags">>, <<"beta">>, <<"inl", "x">>, <<"zz">>}
    ELSE Selectors(table, <<>>)

KeyLists(table) == SeqsUpTo(KeysTried(table), MaxKeyList)

\* The namespaces passed to format_export: what parse_data returns for no
\* data, and records with a field missing or a field no adapter exports.
ExportNamespaces(table) ==
    {ParseData(table, <<>>, None, "FAIL").ns}
    \cup (IF HasItem(table, "alpha")
          THEN {PyObj([alpha |-> Str("o"), count |-> PyInt(7),
                       game |-> PyObj([name |-> Str("o"), gpath |-> PyPath(<<"p">>),
                                       deep |-> PyObj([flag |-> False])])]),
                PyObj([alpha |-> PyInt(7), count |-> PyInt(2),
                       game |-> PyObj([name |-> Str("o"), gpath |-> False])]),
                PyObj([count |-> PyInt(2), game |-> PyInt(7)])}
          ELSE IF HasItem(table, "g")
          THEN {PyObj(<<>>), PyObj([g |-> PyObj([x |-> Str("o"), y |-> PyInt(2)])])}
          ELSE IF ~HasItem(table, "inl") THEN {}
          ELSE {PyObj([inl |-> Str("o"), tags |-> PyList(<<PyInt(1), PyInt(2)>>),
                       beta |-> Str("d")]),
                PyObj([inl |-> PyObj([x |-> PyInt(7)]), tags |-> Str("ee"),
                       beta |-> Str("q")]),
                PyObj([inl |-> PyObj(<<>>), tags |-> PyInt(7)])})

-----------------------------------------------------------------------------
(* The state machine: calls on a schema built once *)

Init ==
    /\ schema \in Schemas
    /\ pc = "idle"
    /\ namespace = None
    /\ data = <<>>
    /\ error_mode = "FAIL"
    /\ ns0 = None
    /\ data0 = <<>>
    /\ log = <<>>
    /\ ret = None
    /\ adapter = None
    /\ arg = None
    /\ fe_keys = <<>>
    /\ fe_use_fullname = FALSE
    /\ fe_show_help = FALSE
    /\ called_item = None
    /\ kept = None
    /\ declared = <<>>

\* The records with an id that a namespace holds, at any depth.
RECURSIVE SharedIn(_)
SharedIn(ns) ==
    IF ns.t # "obj" THEN {}
    ELSE (IF "id" \in DOMAIN ns THEN {ns} ELSE {})
         \cup UNION {SharedIn(ns.f[k]) : k \in DOMAIN ns.f}

\* The schema after a call that wrote to the records of a namespace: an
\* item's default that is one of these records is the record as written.
RECURSIVE SchemaAfter(_, _)
SchemaAfter(table, written) ==
    [table EXCEPT
        !.items = [i \in 1..Len(table.items) |->
            LET d == table.items[i].default_value
            IN IF "id" \in DOMAIN d /\ \E o \in written : o.id = d.id
               THEN [table.items[i] EXCEPT
                        !.default_value = CHOOSE o \in written : o.id = d.id]
               ELSE table.items[i]],
        !.subtables = [j \in 1..Len(table.subtables) |->
            [table.subtables[j] EXCEPT
                !.table = SchemaAfter(table.subtables[j].table, written)]]]

\* schema.parse_data(data, namespace, error_mode)
ParseDataCall ==
    /\ pc = "idle"
    /\ \E d \in TableInputs(schema), n \in Namespaces(schema), m \in Modes :
          \E r \in {ParseData(schema, d, n, m)} :
             /\ ns0' = n
             /\ data0' = d
             /\ error_mode' = m
             /\ namespace' = r.ns
             /\ data' = r.data
             /\ log' = r.log
             /\ ret' = IF IsRaise(r.out) THEN r.out ELSE r.ns
             /\ schema' = SchemaAfter(schema, SharedIn(r.ns))
    /\ pc' = "parse_data"
    /\ UNCHANGED <<adapter, arg, fe_keys, fe_use_fullname, fe_show_help, called_item, kept, declared>>

\* schema.format_export(namespace, keys, use_fullname, show_help)
FormatExportCall ==
    /\ pc = "idle"
    /\ \E n \in ExportNamespaces(schema), ks \in KeyLists(schema),
          uf \in BOOLEAN, sh \in BOOLEAN :
          \E r \in {FormatExport(schema, n, ks, uf, sh)} :
             /\ namespace' = n
             /\ fe_keys' = ks
             /\ fe_use_fullname' = uf
             /\ fe_show_help' = sh
             /\ ret' = r
    /\ pc' = "format_export"
    /\ UNCHANGED <<schema, data, error_mode, ns0, data0, log, adapter, arg, called_item, kept, declared>>

\* schema.help_str()
HelpStrCall ==
    /\ pc = "idle"
    /\ ret' = PyStr(TableHelpStr(schema))
    /\ pc' = "help_str"
    /\ UNCHANGED <<schema, namespace, data, error_mode, ns0, data0, log, adapter, arg,
                   fe_keys, fe_use_fullname, fe_show_help, called_item, kept, declared>>

\* adapter.is_valid(value), the schema being one of the adapters
IsValidCall ==
    /\ pc = "idle"
    /\ \E ad \in AdaptersTried \cup {TableAdapter(schema)}, v \in ValuesTried :
          \E r \in {AdapterIsValid(ad, v)} :
             /\ adapter' = ad
             /\ arg' = v
             /\ ret' = r
    /\ pc' = "is_valid"
    /\ UNCHANGED <<schema, namespace, data, error_mode, ns0, data0, log,
                   fe_keys, fe_use_fullname, fe_show_help, called_item, kept, declared>>

\* adapter.export(value), the schema being one of the adapters
ExportCall ==
    /\ pc = "idle"
    /\ \E ad \in AdaptersTried \cup {TableAdapter(schema)}, v \in ValuesTried :
          \E r \in {AdapterExport(ad, v)} :
             /\ adapter' = ad
             /\ arg' = v
             /\ ret' = r
    /\ pc' = "export"
    /\ UNCHANGED <<schema, namespace, data, error_mode, ns0, data0, log,
                   fe_keys, fe_use_fullname, fe_show_help, called_item, kept, declared>>

\* adapter.convert(value) on a primitive
ConvertCall ==
    /\ pc = "idle"
    /\ \E ad \in AdaptersTried, p \in ValuesTried :
          \E r \in {AdapterConvert(ad, p)} :
             /\ adapter' = ad
             /\ arg' = p
             /\ ret' = r
    /\ pc' = "convert"
    /\ UNCHANGED <<schema, namespace, data, error_mode, ns0, data0, log,
                   fe_keys, fe_use_fullname, fe_show_help, called_item, kept, declared>>

\* adapter.convert(adapter.export(value)): convert on what export returned
ConvertExported ==
    /\ pc = "export"
    /\ adapter # TableAdapter(schema)
    /\ ~IsRaise(ret)
    /\ \E r \in {AdapterConvert(adapter, ret)} : ret' = r
    /\ pc' = "convert_exported"
    /\ UNCHANGED <<schema, namespace, data, error_mode, ns0, data0, log, adapter, arg,
                   fe_keys, fe_use_fullname, fe_show_help, called_item, kept, declared>>

\* item.convert(value) on a primitive
ItemConvertCall ==
    /\ pc = "idle"
    /\ \E it \in ItemsTried(schema), p \in ValuesTried :
          \E r \in {ItemConvert(it, p, 1)} :
             /\ called_item' = it
             /\ arg' = p
             /\ ret' = r
    /\ pc' = "item_convert"
    /\ UNCHANGED <<schema, namespace, data, error_mode, ns0, data0, log, adapter,
                   fe_keys, fe_use_fullname, fe_show_help, kept, declared>>

\* item.export(value)
ItemExportCall ==
    /\ pc = "idle"
    /\ \E it \in ItemsTried(schema), v \in ValuesTried :
          \E r \in {ItemExport(it, v, 1)} :
             /\ called_item' = it
             /\ arg' = v
             /\ ret' = r
    /\ pc' = "item_export"
    /\ UNCHANGED <<schema, namespace, data, error_mode, ns0, data0, log, adapter,
                   fe_keys, fe_use_fullname, fe_show_help, kept, declared>>

\* schema.convert(value): the schema as an adapter.  A mapping goes through
\* parse_data, on a record of the factory.
SchemaConvertCall ==
    /\ pc = "idle"
    /\ \E p \in {PyDict(d) : d \in TableInputs(schema)} \cup {PyInt(7)} :
          \E r \in {IF IsInstance(p, "dict")
                    THEN ParseData(schema, p.d, schema.make_cls, "FAIL")
                    ELSE [ns |-> None, out |-> None]} :
             /\ adapter' = TableAdapter(schema)
             /\ arg' = p
             /\ ret' = IF IsRaise(r.out) THEN r.out ELSE r.ns
             /\ schema' = SchemaAfter(schema, SharedIn(r.ns))
    /\ pc' = "convert"
    /\ UNCHANGED <<namespace, data, error_mode, ns0, data0, log,
                   fe_keys, fe_use_fullname, fe_show_help, called_item, kept, declared>>

\* schema.parse_data(copy of data, namespace, error_mode) once more, with the
\* namespace the call before returned and a new copy of the dict it was given.
ParseAgainCall ==
    /\ pc = "parse_data"
    /\ ~IsRaise(ret)
    /\ \E r \in {ParseData(schema, data0, namespace, error_mode)} :
          /\ ns0' = namespace
          /\ namespace' = r.ns
          /\ data' = r.data
          /\ log' = r.log
          /\ ret' = IF IsRaise(r.out) THEN r.out ELSE r.ns
          /\ schema' = SchemaAfter(schema, SharedIn(r.ns))
    /\ pc' = "parse_again"
    /\ UNCHANGED <<data0, error_mode, adapter, arg, fe_keys, fe_use_fullname, fe_show_help,
                   called_item, kept, declared>>

\* The caller drops what the last call left and is ready for the next call.
Finish ==
    /\ pc # "idle"
    /\ pc' = "idle"
    /\ namespace' = None
    /\ data' = <<>>
    /\ error_mode' = "FAIL"
    /\ ns0' = None
    /\ data0' = <<>>
    /\ log' = <<>>
    /\ ret' = None
    /\ adapter' = None
    /\ arg' = None
    /\ fe_keys' = <<>>
    /\ fe_use_fullname' = FALSE
    /\ fe_show_help' = FALSE
    /\ called_item' = None
    /\ UNCHANGED <<schema, kept, declared>>

Next ==
    \/ ParseDataCall
    \/ ParseAgainCall
    \/ FormatExportCall
    \/ HelpStrCall
    \/ IsValidCall
    \/ ExportCall
    \/ ConvertCall
    \/ ConvertExported
    \/ SchemaConvertCall
    \/ ItemConvertCall
    \/ ItemExportCall
    \/ Finish

Spec == Init /\ [][Next]_vars

\* The calls on the schema that gives one name to an item and a subtable.
InitShadow ==
    /\ schema = SchemaShadow
    /\ pc = "idle"
    /\ namespace = None
    /\ data = <<>>
    /\ error_mode = "FAIL"
    /\ ns0 = None
    /\ data0 = <<>>
    /\ log = <<>>
    /\ ret = None
    /\ adapter = None
    /\ arg = None
    /\ fe_keys = <<>>
    /\ fe_use_fullname = FALSE
    /\ fe_show_help = FALSE
    /\ called_item = None
    /\ kept = None
    /\ declared = <<>>

SpecShadow == InitShadow /\ [][Next]_vars

-----------------------------------------------------------------------------
(* Building a schema: add_item and add_subtable on a new root table and on *)
(* the tables that add_subtable returned                                    *)

\* The names given to items and to subtables.
BuildItemNames == {"a", "c"}
BuildTableNames == {"b", "d"}

\* The adapters, default and description passed to add_item: defaults that an
\* adapter exports, one that every adapter returns None for, and one on which
\* an adapter raises.
ItemArgs ==
    {[possible_values |-> <<IntAdapter(<<>>)>>, default |-> PyInt(1), description |-> <<"D">>],
     [possible_values |-> <<BoolAdapter(<<False>>), PathAdapter>>,
      default |-> PyPath(<<"p">>), description |-> <<>>],
     [possible_values |-> <<TableAdapter(PointTable)>>,
      default |-> PyObj([x |-> PyInt(7)]), description |-> <<>>],
     [possible_values |-> <<IntAdapter(<<>>), StringAdapter(<<Str("d")>>)>>,
      default |-> Str("e"), description |-> <<>>],
     [possible_values |-> <<ListAdapter(IntAdapter(<<>>))>>,
      default |-> PyInt(1), description |-> <<"D">>]}

\* The most items and subtables a schema is built of.
MaxSize == 3

\* One path is the beginning of another.
IsPrefix(p, q) == Len(p) <= Len(q) /\ SubSeq(q, 1, Len(p)) = p

RECURSIVE TablePaths(_), TableAt(_, _), Replaced(_, _, _), TreeSize(_)

\* The tables of a tree, each as the names that lead to it from the root.
TablePaths(table) ==
    {<<>>} \cup UNION {{<<table.subtables[j].name>> \o p :
                            p \in TablePaths(table.subtables[j].table)} :
                        j \in 1..Len(table.subtables)}

\* The table a path leads to.
TableAt(table, path) ==
    IF path = <<>> THEN table ELSE TableAt(SubtableOf(table, Head(path)), Tail(path))

\* The tree after a call changed the table a path leads to.
Replaced(table, path, new) ==
    IF path = <<>> THEN new
    ELSE Populated(table, Head(path),
                   Replaced(SubtableOf(table, Head(path)), Tail(path), new))

\* The number of items and subtables of a tree.
TreeSize(table) ==
    LET Sum[j \in 0..Len(table.subtables)] ==
            IF j = 0 THEN 0 ELSE Sum[j - 1] + 1 + TreeSize(table.subtables[j].table)
    IN Len(table.items) + Sum[Len(table.subtables)]

InitBuild ==
    /\ schema = NewTable(PyObj(<<>>), <<>>, <<"S">>)
    /\ pc = "idle"
    /\ namespace = None
    /\ data = <<>>
    /\ error_mode = "FAIL"
    /\ ns0 = None
    /\ data0 = <<>>
    /\ log = <<>>
    /\ ret = None
    /\ adapter = None
    /\ arg = None
    /\ fe_keys = <<>>
    /\ fe_use_fullname = FALSE
    /\ fe_show_help = FALSE
    /\ called_item = None
    /\ kept = None
    /\ declared = [p \in {<<>>} |-> [items |-> <<>>, subtables |-> <<>>]]

\* table.add_item(name, possible_values, default, description) on a table of
\* the tree.  called_item is the item asked for.
AddItemCall ==
    /\ pc = "idle"
    /\ \E path \in TablePaths(schema), name \in BuildItemNames, a \in ItemArgs :
          \E table \in {TableAt(schema, path)} :
             /\ TreeSize(schema) < MaxSize \/ HasItem(table, name)
             /\ \E r \in {NewItem(name, a.possible_values, a.default, a.description)} :
                   /\ ret' = IF IsRaise(r) THEN r ELSE None
                   /\ declared' = IF IsRaise(r) \/ HasItem(table, name) THEN declared
                                  ELSE [declared EXCEPT ![path].items = Append(@, name)]
             /\ called_item' = [t |-> "item", short_name |-> name,
                                possible_values |-> a.possible_values,
                                default_value |-> a.default, description |-> a.description]
             /\ schema' = Replaced(schema, path,
                                   AddItem(table, name, a.possible_values, a.default,
                                           a.description))
    /\ pc' = "add_item"
    /\ UNCHANGED <<namespace, data, error_mode, ns0, data0, log, adapter, arg,
                   fe_keys, fe_use_fullname, fe_show_help, kept>>

\* table.add_subtable(make_cls, name, description) on a table of the tree: a
\* new, empty subtable under the name, in the place of one that had it.
AddSubtableCall ==
    /\ pc = "idle"
    /\ \E path \in TablePaths(schema), name \in BuildTableNames,
          description \in {<<>>, <<"B">>} :
          \E table \in {TableAt(schema, path)} :
             /\ TreeSize(schema) < MaxSize \/ HasSubtable(table, name)
             /\ schema' = Replaced(schema, path,
                                   AddSubtable(table, PyObj(<<>>), name, description))
             /\ declared' =
                   [p \in TablePaths(schema') |->
                        IF IsPrefix(Append(path, name), p)
                        THEN [items |-> <<>>, subtables |-> <<>>]
                        ELSE IF p = path /\ ~HasSubtable(table, name)
                        THEN [declared[p] EXCEPT !.subtables = Append(@, name)]
                        ELSE declared[p]]
    /\ pc' = "add_subtable"
    /\ ret' = None
    /\ UNCHANGED <<namespace, data, error_mode, ns0, data0, log, adapter, arg,
                   fe_keys, fe_use_fullname, fe_show_help, called_item, kept>>

\* The caller is ready for the next call on the schema it builds.
BuildFinish ==
    /\ pc # "idle"
    /\ pc' = "idle"
    /\ namespace' = None
    /\ ret' = None
    /\ fe_keys' = <<>>
    /\ fe_use_fullname' = FALSE
    /\ fe_show_help' = FALSE
    /\ called_item' = None
    /\ UNCHANGED <<schema, data, error_mode, ns0, data0, log, adapter, arg, kept, declared>>

NextBuild ==
    \/ AddItemCall
    \/ AddSubtableCall
    \/ HelpStrCall
    \/ FormatExportCall
    \/ BuildFinish

SpecBuild == InitBuild /\ [][NextBuild]_vars

-----------------------------------------------------------------------------
(* parse_data: what a call leaves *)

\* The call of parse_data has returned a namespace.
Returned == pc = "parse_data" /\ ~IsRaise(ret)

\* The record parse_data starts from: the caller's, or a fresh one.
Before == IF ns0 = None THEN schema.make_cls ELSE ns0

\* The record a subtable starts from.
SubBefore(sub, before) ==
    IF HasAttr(before, sub.name) THEN before.f[sub.name] ELSE sub.table.make_cls

\* What data holds for a subtable.
SubData(d, key) == IF key \in DOMAIN d THEN d[key] ELSE PyDict(<<>>)

\* A field of a record, Unset when the record has no such field.
Unset == [t |-> "unset"]
Field(ns, key) == IF HasAttr(ns, key) THEN ns.f[key] ELSE Unset

\* The adapters of the item convert the raw value.
Converts(item, value) ==
    LET c == ItemConvert(item, value, 1) IN ~IsRaise(c) /\ c # None

\* Every item of the table tree that data holds and an adapter converts has
\* its field set to the conversion.
RECURSIVE ConvertedFieldsSet(_, _, _)
ConvertedFieldsSet(table, d, after) ==
    /\ \A i \in 1..Len(table.items) :
          LET item == table.items[i]
              key == item.short_name
          IN (key \in DOMAIN d /\ Converts(item, d[key]))
                => Field(after, key) = ItemConvert(item, d[key], 1)
    /\ \A j \in 1..Len(table.subtables) :
          LET sub == table.subtables[j]
              sd == SubData(d, sub.name)
          IN /\ HasAttr(after, sub.name)
             /\ IsInstance(sd, "dict")
             /\ ConvertedFieldsSet(sub.table, sd.d, after.f[sub.name])

\* C1: in every error mode, when parse_data returns, each declared item that
\* data holds and that one of its adapters converts has its field equal to the
\* converted value, whatever the field held before the call.
C1_ConversionOverwrites == Returned => ConvertedFieldsSet(schema, data0, namespace)

\* C1 happens: a field the caller had set holds another, converted value.
C1_Witness ==
    /\ Returned
    /\ "alpha" \in DOMAIN data0
    /\ HasAttr(ns0, "alpha")
    /\ log[1].conv = "converted"
    /\ namespace.f["alpha"] # ns0.f["alpha"]

\* Every item that data does not hold and whose field was set keeps its value;
\* it does so in the records the caller passed, on any outcome of the call.
RECURSIVE AbsentKept(_, _, _, _)
AbsentKept(table, d, before, after) ==
    /\ \A i \in 1..Len(table.items) :
          LET key == table.items[i].short_name
          IN (key \notin DOMAIN d /\ HasAttr(before, key))
                => Field(after, key) = before.f[key]
    /\ \A j \in 1..Len(table.subtables) :
          LET sub == table.subtables[j]
              sd == SubData(d, sub.name)
          IN HasAttr(before, sub.name)
                => /\ HasAttr(after, sub.name)
                   /\ IsInstance(sd, "dict")
                        => AbsentKept(sub.table, sd.d, before.f[sub.name], after.f[sub.name])

\* Every item that data does not hold and whose field was not set holds its
\* default.
RECURSIVE AbsentDefaulted(_, _, _, _)
AbsentDefaulted(table, d, before, after) ==
    /\ \A i \in 1..Len(table.items) :
          LET item == table.items[i]
              key == item.short_name
          IN (key \notin DOMAIN d /\ ~HasAttr(before, key))
                => Field(after, key) = item.default_value
    /\ \A j \in 1..Len(table.subtables) :
          LET sub == table.subtables[j]
              sd == SubData(d, sub.name)
          IN /\ HasAttr(after, sub.name)
             /\ IsInstance(sd, "dict")
             /\ AbsentDefaulted(sub.table, sd.d, SubBefore(sub, before), after.f[sub.name])

\* C2: defaulting happens on first touch only.  An item absent from data whose
\* field was already set holds the value it held before the call; an item
\* absent from data whose field was not set holds its default when the call
\* returns.
C2_DefaultOnFirstTouch ==
    pc = "parse_data"
        => /\ AbsentKept(schema, data0, Before, namespace)
           /\ Returned => AbsentDefaulted(schema, data0, Before, namespace)

\* C2 happens: of two items absent from data, one was set and one was not.
C2_Witness ==
    /\ Returned
    /\ schema = SchemaNested
    /\ {"alpha", "count"} \cap DOMAIN data0 = {}
    /\ HasAttr(ns0, "alpha")
    /\ ~HasAttr(ns0, "count")
    /\ namespace.f["count"] = PyInt(1)

\* The field an error mode leaves for an item whose value was not converted.
FieldAfterFailure(mode, item, before) ==
    CASE mode = "IGNORE" -> Field(before, item.short_name)
      [] mode = "SET_NONE" -> None
      [] mode = "SET_DEFAULT" -> item.default_value
      [] mode = "REMOVE" -> Unset

\* Every item of the table tree that data holds and no adapter converts has
\* the field its error mode leaves.
RECURSIVE FailedFieldsHandled(_, _, _, _, _)
FailedFieldsHandled(table, d, before, after, mode) ==
    /\ \A i \in 1..Len(table.items) :
          LET item == table.items[i]
              key == item.short_name
          IN (key \in DOMAIN d /\ ~Converts(item, d[key]))
                => Field(after, key) = FieldAfterFailure(mode, item, before)
    /\ \A j \in 1..Len(table.subtables) :
          LET sub == table.subtables[j]
              sd == SubData(d, sub.name)
          IN /\ HasAttr(after, sub.name)
             /\ IsInstance(sd, "dict")
             /\ FailedFieldsHandled(sub.table, sd.d, SubBefore(sub, before),
                                    after.f[sub.name], mode)

\* No item's conversion ended in an exception.
NoItemRaised == \A i \in DOMAIN log : log[i].conv # "raised"

\* C3: under Ignore, an item whose raw value none of its adapters converts
\* raises no error, and its field is exactly as it was before the call.
C3_IgnoreLeavesField ==
    (pc = "parse_data" /\ error_mode = "IGNORE")
        => /\ NoItemRaised
           /\ Returned => FailedFieldsHandled(schema, data0, Before, namespace, "IGNORE")

\* C4: under Fail, the first item in traversal order whose raw value no
\* adapter converts ends the parse with a conversion error naming that field
\* and its table, and nothing after it is processed.
C4_FailAborts ==
    (pc = "parse_data" /\ error_mode = "FAIL")
        => \A i \in DOMAIN log :
              log[i].conv \in {"failed", "raised"}
                => /\ i = Len(log)
                   /\ IsRaise(ret)
                   /\ ret.e = "ValueError"
                   /\ ret.field = log[i].name
                   /\ ret.table = (IF log[i].table = <<>> THEN <<"root">> ELSE log[i].table)

\* C5: under SetNone, SetDefault and Remove, an item's conversion failure
\* raises no error and leaves the field none, the default, or absent.
C5_RecoveringModes ==
    (pc = "parse_data" /\ error_mode \in {"SET_NONE", "SET_DEFAULT", "REMOVE"})
        => /\ NoItemRaised
           /\ Returned => FailedFieldsHandled(schema, data0, Before, namespace, error_mode)

\* The input has a structural flaw somewhere in the table tree: a key that
\* the table declares as neither item nor subtable, or a subtable whose value
\* is not a mapping.
RECURSIVE StructuralFlaw(_, _)
StructuralFlaw(table, d) ==
    \/ \E k \in DOMAIN d :
          /\ \A i \in 1..Len(table.items) : table.items[i].short_name # k
          /\ \A j \in 1..Len(table.subtables) : table.subtables[j].name # k
    \/ \E j \in 1..Len(table.subtables) :
          LET sub == table.subtables[j]
          IN /\ sub.name \in DOMAIN d
             /\ \/ ~IsInstance(d[sub.name], "dict")
                \/ StructuralFlaw(sub.table, d[sub.name].d)

\* C6: in every error mode, parse_data fails when the input holds, at any
\* depth of the table tree, an undeclared key or a subtable that is not a
\* mapping.
C6_StructuralFailure ==
    (pc = "parse_data" /\ StructuralFlaw(schema, data0)) => IsRaise(ret)

\* C6 happens: a recovering mode, every item converts, an undeclared key in a
\* subtable.
C6_Witness ==
    /\ pc = "parse_data"
    /\ error_mode = "SET_NONE"
    /\ "game" \in DOMAIN data0
    /\ IsInstance(data0["game"], "dict")
    /\ DOMAIN data0["game"].d = {"zz"}
    /\ ret = Raise("KeyError")

\* C7: the error mode of a call governs every conversion made under it,
\* inline tables included: in a mode other than Fail no call ends with a
\* conversion error.
C7_ErrorModeEverywhere ==
    (pc = "parse_data" /\ error_mode # "FAIL") => ~(IsRaise(ret) /\ ret.e = "ValueError")

\* C8: the mapping passed as data holds the same keys and values after the
\* call.
C8_DataUnchanged == pc = "parse_data" => data = data0

-----------------------------------------------------------------------------
(* The schema tree and the adapters *)

\* C9: no call of parse_data, format_export, help_str, convert, export or
\* is_valid changes the schema tree: every table's name, description, items,
\* subtables and factory, and every item's adapters, default and description,
\* are after a call what they were before it.
C9_SchemaUnchanged == [][schema' = schema]_vars

\* C10: for every adapter and every value v that the adapter finds valid,
\* convert applied to export(v) returns v.
C10_RoundTrip ==
    (pc = "convert_exported" /\ AdapterIsValid(adapter, arg) = True) => ret = arg

\* C11: convert discriminates by type, not by numeric value.  IntAdapter.convert
\* returns None for every float, one without a fraction included;
\* FloatAdapter.convert returns None for every int; BoolAdapter.convert returns
\* None for the ints 0 and 1.
C11_TypeDiscrimination ==
    pc = "convert"
        => /\ (adapter.a = "Int" /\ arg.t = "float") => ret = None
           /\ (adapter.a = "Float" /\ arg.t = "int") => ret = None
           /\ (adapter.a = "Bool" /\ arg \in {PyInt(0), PyInt(1)}) => ret = None

\* C11 happens: the float 1.0 equals the choice 1 of an IntAdapter, and is
\* not converted.
C11_Witness ==
    /\ pc = "convert"
    /\ adapter = IntAdapter(<<PyInt(1), PyInt(2)>>)
    /\ arg = PyFloat(2)
    /\ InTuple(arg, adapter.choices)
    /\ ret = None

\* C12: for every adapter, a table used as an adapter included, export returns
\* None for a value that is_valid finds not valid.  The least of it is stated:
\* export returns no text for such a value.
C12_ExportValidates ==
    (pc = "export" /\ AdapterIsValid(adapter, arg) = False) => ret.t # "str"

\* An adapter accepts an input: it returns something other than None.
Accepts(r) == ~IsRaise(r) /\ r # None

\* What each adapter of the item called returns for the argument, in the
\* order of possible_values.
EachAdapter ==
    [i \in 1..Len(called_item.possible_values) |->
        IF pc = "item_convert" THEN AdapterConvert(called_item.possible_values[i], arg)
        ELSE AdapterExport(called_item.possible_values[i], arg)]

\* C13: SchemaItem.convert and SchemaItem.export return what the first adapter
\* that accepts the input returns, every earlier one not accepting it, and
\* return None exactly when every adapter returns None.
C13_FirstMatchWins ==
    pc \in {"item_convert", "item_export"}
        => /\ \A i \in DOMAIN EachAdapter :
                (Accepts(EachAdapter[i]) /\ \A j \in 1..(i - 1) : ~Accepts(EachAdapter[j]))
                    => ret = EachAdapter[i]
           /\ ret = None <=> \A i \in DOMAIN EachAdapter : EachAdapter[i] = None

-----------------------------------------------------------------------------
(* Building a schema *)

\* Every item of the tree has a default that one of its adapters exports to
\* text.
RECURSIVE DefaultsExportable(_)
DefaultsExportable(table) ==
    /\ \A i \in 1..Len(table.items) :
          ItemExport(table.items[i], table.items[i].default_value, 1).t = "str"
    /\ \A j \in 1..Len(table.subtables) : DefaultsExportable(table.subtables[j].table)

\* No adapter of the item exports the item's default to text.
NoAdapterExportsDefault(it) ==
    \A i \in 1..Len(it.possible_values) :
        AdapterExport(it.possible_values[i], it.default_value).t # "str"

\* C14: after any sequence of add_item calls every registered item has a
\* default that one of its adapters exports to text, and an add_item whose
\* default no adapter of the item exports fails.
C14_DefaultExportable ==
    /\ DefaultsExportable(schema)
    /\ (pc = "add_item" /\ NoAdapterExportsDefault(called_item)) => IsRaise(ret)

\* C14 happens: on a table that holds an item, add_item under the same name
\* with a default that no adapter exports fails, and the item stays.
C14_Witness ==
    /\ pc = "add_item"
    /\ ret = Raise("ValueError")
    /\ NoAdapterExportsDefault(called_item)
    /\ HasItem(schema, called_item.short_name)
    /\ ItemOf(schema, called_item.short_name) # called_item

-----------------------------------------------------------------------------
(* format_export: what the text holds *)

\* The call of format_export has returned a text.
Exported == pc = "format_export" /\ ret.t = "str"

\* The item lines and table headers of a text, in the order of the text.  A
\* comment line and a blank line are neither.  An item line is under the
\* header before it, or carries its full name.
RECURSIVE RenderedFrom(_, _, _)
RenderedFrom(lines, current, use_fullname) ==
    IF lines = <<>> THEN <<>>
    ELSE LET line == Head(lines)
             names(s) == SelectSeq(s, LAMBDA x : x # ".")
         IN IF line = <<>> \/ line[1] = "# "
            THEN RenderedFrom(Tail(lines), current, use_fullname)
            ELSE IF line[1] = "["
            THEN LET path == names(SubSeq(line, 2, Len(line) - 1))
                 IN <<[k |-> "table", path |-> path]>>
                    \o RenderedFrom(Tail(lines), path, use_fullname)
            ELSE LET i == CHOOSE i \in 1..Len(line) :
                            line[i] = " = " /\ \A j \in 1..(i - 1) : line[j] # " = "
                     lhs == names(SubSeq(line, 1, i - 1))
                 IN <<[k |-> "item",
                       path |-> IF use_fullname THEN lhs ELSE current \o lhs,
                       rhs |-> SubSeq(line, i + 1, Len(line))]>>
                    \o RenderedFrom(Tail(lines), current, use_fullname)

Rendered == RenderedFrom(SplitLines(ret.s), <<>>, fe_use_fullname)

RenderedItems == {Rendered[i].path : i \in {j \in DOMAIN Rendered : Rendered[j].k = "item"}}
RenderedTables == {Rendered[i].path : i \in {j \in DOMAIN Rendered : Rendered[j].k = "table"}}

\* Every item of a table tree, as the names that lead to it.
RECURSIVE ItemsBelow(_, _)
ItemsBelow(table, prefix) ==
    {Append(prefix, table.items[i].short_name) : i \in 1..Len(table.items)}
    \cup UNION {ItemsBelow(table.subtables[j].table, Append(prefix, table.subtables[j].name)) :
                    j \in 1..Len(table.subtables)}

\* The items a selector resolves to: the item it names, or every item below
\* the subtable it names; none when it names nothing that is declared.
RECURSIVE Resolved(_, _, _)
Resolved(table, prefix, key) ==
    IF key = <<>> THEN ItemsBelow(table, prefix)
    ELSE IF HasItem(table, Head(key))
    THEN (IF Len(key) = 1 THEN {Append(prefix, Head(key))} ELSE {})
    ELSE IF HasSubtable(table, Head(key))
    THEN Resolved(SubtableOf(table, Head(key)), Append(prefix, Head(key)), Tail(key))
    ELSE {}

\* C15: with keys, format_export renders the selected children and no others.
\* An item's line is in the text exactly when a selector names the item or a
\* subtable above it; a header is in the text only for a subtable that is on
\* the path of a selector or below it.
C15_ExportScoping ==
    (Exported /\ fe_keys # <<>>)
        => /\ RenderedItems = UNION {Resolved(schema, <<>>, fe_keys[i]) : i \in DOMAIN fe_keys}
           /\ \A h \in RenderedTables :
                \E i \in DOMAIN fe_keys : IsPrefix(h, fe_keys[i]) \/ IsPrefix(fe_keys[i], h)

\* A selector names something declared: an item, a subtable, or one of these
\* below a subtable, with nothing after an item's name.
RECURSIVE Declared(_, _)
Declared(table, key) ==
    \/ key = <<>>
    \/ HasItem(table, Head(key)) /\ Len(key) = 1
    \/ /\ ~HasItem(table, Head(key))
       /\ HasSubtable(table, Head(key))
       /\ Declared(SubtableOf(table, Head(key)), Tail(key))

\* C16: format_export fails whenever a selector names a field that the schema
\* does not declare, at any position of the dotted path: an unknown head, an
\* unknown child of a subtable, a remainder below an item.  It returns no text
\* then.
C16_UnknownSelectorFails ==
    (pc = "format_export" /\ \E i \in DOMAIN fe_keys : ~Declared(schema, fe_keys[i]))
        => IsRaise(ret)

\* The item lines and headers of a text, without what the items are set to.
RenderedOrder == [i \in DOMAIN Rendered |-> [k |-> Rendered[i].k, path |-> Rendered[i].path]]

\* The table an item line or a header belongs to.
TableOf(e) == IF e.k = "item" THEN SubSeq(e.path, 1, Len(e.path) - 1) ELSE e.path

\* The item lines and headers of a whole table as the calls of add_item and
\* add_subtable order them: the items in the order declared, then each
\* subtable in the order declared, under its header unless full names are used.
RECURSIVE DeclaredOrder(_, _)
DeclaredOrder(path, use_fullname) ==
    LET d == declared[path]
        block(name) ==
            (IF use_fullname THEN <<>> ELSE <<[k |-> "table", path |-> Append(path, name)]>>)
            \o DeclaredOrder(Append(path, name), use_fullname)
        Blocks[j \in 0..Len(d.subtables)] ==
            IF j = 0 THEN <<>> ELSE Blocks[j - 1] \o block(d.subtables[j])
    IN [i \in 1..Len(d.items) |-> [k |-> "item", path |-> Append(path, d.items[i])]]
       \o Blocks[Len(d.subtables)]

\* C17: in the text of format_export, at every table level, every item line
\* comes before every subtable block, whatever the order of the selectors; with
\* no keys the items come in the order add_item declared them, followed by the
\* subtables in the order add_subtable declared them.
C17_ExportOrder ==
    Exported
        => /\ \A i, j \in DOMAIN Rendered :
                (i < j /\ Rendered[j].k = "item")
                    => ~(/\ IsPrefix(TableOf(Rendered[j]), TableOf(Rendered[i]))
                         /\ TableOf(Rendered[i]) # TableOf(Rendered[j]))
           /\ fe_keys = <<>> => RenderedOrder = DeclaredOrder(<<>>, fe_use_fullname)

-----------------------------------------------------------------------------
(* format_export: what an item line is set to.                              *)

\* The value a namespace holds at the end of a path of attribute names.
RECURSIVE ValueAt(_, _)
ValueAt(ns, path) ==
    IF path = <<>> THEN ns ELSE ValueAt(GetAttr(ns, Head(path)), Tail(path))

\* What item.export gives for the value the namespace holds for the item of
\* an item line.
ExportOfLine(e) ==
    ItemExport(ItemOf(TableAt(schema, TableOf(e)), e.path[Len(e.path)]),
               ValueAt(namespace, e.path), 1)

\* C18: format_export returns no text with a line for an item whose value none
\* of the item's adapters exports: what stands to the right of every item line
\* is the export of the value by one of the item's adapters.
C18_UnexportableSurfaced ==
    Exported
        => \A i \in DOMAIN Rendered :
              Rendered[i].k = "item"
                  => \E e \in {ExportOfLine(Rendered[i])} :
                        e.t = "str" /\ Rendered[i].rhs = e.s

-----------------------------------------------------------------------------
(* Two calls of parse_data on one schema.  An object that outlives a call   *)
(* is a record with an id; two records with one id are one object, and an   *)
(* assignment to an attribute of an object shows wherever the object is     *)
(* held.                                                                    *)

\* A factory that hands out the one record it made for its table.
MakeClsOnce(table, call) == Shared([call |-> 0, table |-> table.fullname], table.make_cls.f)

\* self.__make_cls(): the record a factory returns when one call of
\* parse_data calls it, a new object for every call.
MakeCls(table, call) == Shared([call |-> call, table |-> table.fullname], table.make_cls.f)

\* The schema as one call of parse_data sees it: every factory returns the
\* object it makes in this call.
RECURSIVE Made(_, _)
Made(table, call) ==
    [table EXCEPT
        !.make_cls = MakeCls(table, call),
        !.subtables = [j \in 1..Len(table.subtables) |->
            [table.subtables[j] EXCEPT !.table = Made(table.subtables[j].table, call)]]]

\* A value after some objects were written to: every object it holds is the
\* object as written.
RECURSIVE Synced(_, _)
Synced(v, written) ==
    IF v.t # "obj" THEN v
    ELSE IF "id" \in DOMAIN v /\ \E o \in written : o.id = v.id
    THEN CHOOSE o \in written : o.id = v.id
    ELSE [v EXCEPT !.f = [k \in DOMAIN v.f |-> Synced(v.f[k], written)]]

\* The value a namespace holds at the end of a path, None where it holds none.
RECURSIVE Held(_, _)
Held(ns, path) ==
    IF path = <<>> THEN ns
    ELSE IF HasAttr(ns, Head(path)) THEN Held(ns.f[Head(path)], Tail(path))
    ELSE None

\* The dicts the two calls are given.
KeptInputs ==
    {<<>>,
     [alpha |-> Str("d")],
     [game |-> PyDict([name |-> Str("d")])],
     [game |-> PyInt(7)]}

KeptModes == {"FAIL", "SET_NONE"}

\* The namespaces a call is given: none, a new empty one, the namespace kept,
\* or a new one that holds the game record of the namespace kept.
KeptNamespaces(call) ==
    LET new(f) == Shared([call |-> call, table |-> <<"new">>], f)
    IN {None, new(<<>>)}
       \cup (IF kept = None THEN {}
             ELSE {kept.ns, new([game |-> kept.ns.f.game])})

\* The paths of the subtables of the schema.
KeptPaths == {<<"game">>, <<"game", "deep">>}

InitKept ==
    /\ schema = SchemaNested
    /\ pc = "idle"
    /\ namespace = None
    /\ data = <<>>
    /\ error_mode = "FAIL"
    /\ ns0 = None
    /\ data0 = <<>>
    /\ log = <<>>
    /\ ret = None
    /\ adapter = None
    /\ arg = None
    /\ fe_keys = <<>>
    /\ fe_use_fullname = FALSE
    /\ fe_show_help = FALSE
    /\ called_item = None
    /\ kept = None
    /\ declared = <<>>

\* schema.parse_data(data, namespace, error_mode), the first call or a later
\* one: what the call writes to the namespace kept shows in it.
ParseKeptCall ==
    /\ pc = "idle"
    /\ \E call \in {IF kept = None THEN 1 ELSE 2} :
       \E d \in KeptInputs, n \in KeptNamespaces(call), m \in KeptModes :
          \E r \in {ParseData(Made(schema, call), d, n, m)} :
             /\ ns0' = n
             /\ data0' = d
             /\ error_mode' = m
             /\ namespace' = r.ns
             /\ data' = r.data
             /\ log' = r.log
             /\ ret' = IF IsRaise(r.out) THEN r.out ELSE r.ns
             /\ kept' = IF kept = None THEN None
                        ELSE [kept EXCEPT !.ns = Synced(@, SharedIn(r.ns))]
    /\ pc' = "parse_data"
    /\ UNCHANGED <<schema, adapter, arg, fe_keys, fe_use_fullname, fe_show_help,
                   called_item, declared>>

\* The caller keeps the namespace the first call returned, with the
\* namespace it passed.
KeepCall ==
    /\ pc = "parse_data"
    /\ kept = None
    /\ ~IsRaise(ret)
    /\ kept' = [passed |-> ns0, ns |-> ret]
    /\ pc' = "idle"
    /\ namespace' = None
    /\ data' = <<>>
    /\ error_mode' = "FAIL"
    /\ ns0' = None
    /\ data0' = <<>>
    /\ log' = <<>>
    /\ ret' = None
    /\ UNCHANGED <<schema, adapter, arg, fe_keys, fe_use_fullname, fe_show_help,
                   called_item, declared>>

\* setattr(record, name, value) on the record the namespace kept holds for
\* a subtable, after a later call returned its namespace.
SetFieldCall ==
    /\ pc = "parse_data"
    /\ kept # None
    /\ ~IsRaise(ret)
    /\ \E path \in KeptPaths, name \in {"name", "zz"}, value \in {Str("q")} :
          \E record \in {SetAttr(Held(kept.ns, path), name, value)} :
             /\ kept' = [kept EXCEPT !.ns = Synced(@, {record})]
             /\ namespace' = Synced(namespace, {record})
             /\ fe_keys' = <<path>>
             /\ arg' = value
    /\ pc' = "setattr"
    /\ UNCHANGED <<schema, data, error_mode, ns0, data0, log, ret, adapter,
                   fe_use_fullname, fe_show_help, called_item, declared>>

NextKept == ParseKeptCall \/ KeepCall \/ SetFieldCall \/ Finish

SpecKept == InitKept /\ [][NextKept]_vars

\* A call of parse_data had to create the record of the subtable at a path:
\* the namespace it was given held none there.
HadToCreate(passed, path) == passed = None \/ Held(passed, path) = None

\* C19: when two calls of parse_data on one schema each had to create the
\* record of a subtable, the two records are distinct objects, and setting a
\* field of the record of the namespace kept leaves the record of the other
\* namespace as the call returned it.
C19_FactoryIsolation ==
    (pc = "setattr" /\ HadToCreate(kept.passed, fe_keys[1]) /\ HadToCreate(ns0, fe_keys[1]))
        => /\ Held(kept.ns, fe_keys[1]).id # Held(namespace, fe_keys[1]).id
           /\ Held(namespace, fe_keys[1]) = Held(ret, fe_keys[1])

\* C19 happens: two calls without a namespace created the record of
\* game.deep, and a field set in the one kept is not in the other.
C19_Witness ==
    /\ pc = "setattr"
    /\ kept.passed = None
    /\ ns0 = None
    /\ fe_keys = <<<<"game", "deep">>>>
    /\ HasAttr(Held(kept.ns, fe_keys[1]), "zz")
    /\ ~HasAttr(Held(namespace, fe_keys[1]), "zz")

-----------------------------------------------------------------------------
(* help_str of a table: the layout of the text.                             *)

\* The sections of a help text, each separated from the next by a blank
\* line: the header with the description, then the help block of every item,
\* then the help block of every subtable; a section that is absent is left out.
RECURSIVE HelpLayout(_)
HelpLayout(table) ==
    LET name == IF table.fullname # <<>>
                THEN <<(<<"[">> \o Dotted(table.fullname) \o <<"]">>)>>
                ELSE <<>>
        desc == IF table.description # <<>> THEN <<table.description>> ELSE <<>>
        header == Join(name \o desc, <<"\n">>)
        items == [i \in 1..Len(table.items) |-> ItemHelpStr(table.items[i])]
        subs == [j \in 1..Len(table.subtables) |-> HelpLayout(table.subtables[j].table)]
    IN Join(SelectSeq(<<header>> \o items \o subs, LAMBDA x : x # <<>>), <<"\n", "\n">>)

\* C20: the text of help_str is the header with the description, the items
\* and the subtables, in that order; a blank line separates every section that
\* is present from the next, every item block from the next and every subtable
\* block from the next, and an absent section leaves no separator.
C20_HelpLayout == pc = "help_str" => ret.s = HelpLayout(schema)

-----------------------------------------------------------------------------
(* is_valid of a table: which records it accepts.                           *)

\* A record has the fields a table declares and no other: every item and
\* subtable name is a field, what the field holds is valid under the item or
\* the subtable, and no field is left over.
RECURSIVE Conforms(_, _)
Conforms(table, v) ==
    /\ v.t = "obj"
    /\ DOMAIN v.f = {table.items[i].short_name : i \in 1..Len(table.items)}
                    \cup {table.subtables[j].name : j \in 1..Len(table.subtables)}
    /\ \A i \in 1..Len(table.items) :
          ItemIsValid(table.items[i], v.f[table.items[i].short_name], 1) = True
    /\ \A j \in 1..Len(table.subtables) :
          Conforms(table.subtables[j].table, v.f[table.subtables[j].name])

\* C21: is_valid of a table, called with a record, returns a boolean and never
\* fails; it returns true exactly when every declared item and subtable name is
\* a field of the record, each field is valid under its item or subtable, and
\* the record has no other field.
C21_TableIsValidExact ==
    (pc = "is_valid" /\ adapter.a = "Table" /\ arg.t = "obj")
        => /\ ret \in {True, False}
           /\ ret = True <=> Conforms(adapter.table, arg)

-----------------------------------------------------------------------------
(* Integers and booleans.                                                   *)

\* C22: an IntAdapter, with or without choices, takes no boolean: is_valid
\* returns false, export and convert return none for true and for false; an
\* item whose adapters are an IntAdapter and then a BoolAdapter converts true
\* through the BoolAdapter, the IntAdapter having returned none.
C22_IntIsNotBool ==
    /\ (pc \in {"is_valid", "export", "convert"} /\ adapter.a = "Int" /\ arg.t = "bool")
            => ret = IF pc = "is_valid" THEN False ELSE None
    /\ (/\ pc = "item_convert"
        /\ called_item.possible_values = <<IntAdapter(<<>>), BoolAdapter(<<>>)>>
        /\ arg = True)
            => /\ ret = True
               /\ AdapterConvert(called_item.possible_values[1], arg) = None

-----------------------------------------------------------------------------
(* parse_data called again on what it returned.                             *)

\* C23: parse_data is idempotent: called with a new copy of the same data, in
\* the same error mode, on the namespace a successful call returned, it returns
\* a namespace equal to the one it was given, field by field and through the
\* subtables.
C23_ParseIdempotent == pc = "parse_again" => (~IsRaise(ret) /\ namespace = ns0)

\* C23 happens: under Remove the first call removed the field of an item
\* whose value does not convert, and the second call leaves it removed.
C23_Witness ==
    /\ pc = "parse_again"
    /\ error_mode = "REMOVE"
    /\ "count" \in DOMAIN data0
    /\ ~HasAttr(ns0, "count")
    /\ ~HasAttr(namespace, "count")
    /\ HasAttr(namespace, "game")

-----------------------------------------------------------------------------
(* parse_data on a schema whose factories set no field.                     *)

InitPlain ==
    /\ schema = SchemaPlain
    /\ pc = "idle"
    /\ namespace = None
    /\ data = <<>>
    /\ error_mode = "FAIL"
    /\ ns0 = None
    /\ data0 = <<>>
    /\ log = <<>>
    /\ ret = None
    /\ adapter = None
    /\ arg = None
    /\ fe_keys = <<>>
    /\ fe_use_fullname = FALSE
    /\ fe_show_help = FALSE
    /\ called_item = None
    /\ kept = None
    /\ declared = <<>>

NextPlain == ParseDataCall \/ ParseAgainCall \/ Finish

SpecPlain == InitPlain /\ [][NextPlain]_vars

\* The factories of a table and of its subtables return records with no field.
RECURSIVE EmptyFactories(_)
EmptyFactories(table) ==
    /\ table.make_cls = PyObj(<<>>)
    /\ \A j \in 1..Len(table.subtables) : EmptyFactories(table.subtables[j].table)

\* Every item of the table has its field set to the conversion of what data
\* holds for it or to its default, and every subtable has its field set to a
\* record of which the same is true.
RECURSIVE Complete(_, _, _)
Complete(table, d, ns) ==
    /\ \A i \in 1..Len(table.items) :
          LET item == table.items[i]
              key == item.short_name
          IN /\ HasAttr(ns, key)
             /\ \/ ns.f[key] = item.default_value
                \/ key \in DOMAIN d /\ Converts(item, d[key])
                                    /\ ns.f[key] = ItemConvert(item, d[key], 1)
    /\ \A j \in 1..Len(table.subtables) :
          LET sub == table.subtables[j]
              sd == SubData(d, sub.name)
          IN /\ HasAttr(ns, sub.name)
             /\ ns.f[sub.name].t = "obj"
             /\ IsInstance(sd, "dict")
             /\ Complete(sub.table, sd.d, ns.f[sub.name])

\* C24: when parse_data returns under Fail or SetDefault for a namespace with
\* no field set, the factories returning records with no field set, every
\* declared item at every depth has its field set to a converted input value
\* or to its default, and every declared subtable to a record of that kind.
C24_CompleteAfterParse ==
    (/\ Returned
     /\ error_mode \in {"FAIL", "SET_DEFAULT"}
     /\ ns0 \in {None, PyObj(<<>>)}
     /\ EmptyFactories(schema))
        => Complete(schema, data0, namespace)

\* C24 happens: under SetDefault count did not convert and holds its default,
\* the name of game converted, and deep was created with its default.
C24_Witness ==
    /\ Returned
    /\ error_mode = "SET_DEFAULT"
    /\ ns0 = None
    /\ EmptyFactories(schema)
    /\ "count" \in DOMAIN data0
    /\ ~Converts(ItemOf(schema, "count"), data0["count"])
    /\ namespace.f["count"] = PyInt(1)
    /\ "game" \in DOMAIN data0
    /\ "deep" \notin DOMAIN data0["game"].d
    /\ namespace.f["game"].f["deep"] = PyObj([flag |-> True])

-----------------------------------------------------------------------------
(* parse_data that fails: what the namespace is left with.                  *)

\* The dict data holds for the table at a path.
RECURSIVE DataAt(_, _)
DataAt(d, path) ==
    IF path = <<>> THEN d ELSE DataAt(SubData(d, Head(path)).d, Tail(path))

\* The names a table declares.
NamesOf(table) ==
    {table.items[i].short_name : i \in 1..Len(table.items)}
    \cup {table.subtables[j].name : j \in 1..Len(table.subtables)}

\* The dicts below a table hold declared keys only, and dicts for subtables.
RECURSIVE KnownBelow(_, _)
KnownBelow(table, d) ==
    \A j \in 1..Len(table.subtables) :
        LET sub == table.subtables[j]
            sd == SubData(d, sub.name)
        IN /\ IsInstance(sd, "dict")
           /\ DOMAIN sd.d \subseteq NamesOf(sub.table)
           /\ KnownBelow(sub.table, sd.d)

\* The exception comes from the end of the call on the schema itself: no
\* conversion of an item raised it, and no table below.
AtTheEnd ==
    /\ \A k \in DOMAIN log : log[k].conv # "raised"
    /\ KnownBelow(schema, data0)

\* parse_data failed on a namespace the caller passed.
Failed == pc = "parse_data" /\ IsRaise(ret) /\ ns0 # None

\* C25: parse_data does not roll back.  When a call on a namespace of the
\* caller fails, every field an item assigned earlier in the traversal holds
\* its new value; and the unexpected keys of a table are looked for only after
\* every item and subtable of the table was processed.
C25_NoRollback ==
    Failed
        => /\ \A k \in DOMAIN log :
                LET e == log[k]
                    record == Held(namespace, e.table)
                IN (e.k = "item" /\ record # None)
                      => /\ e.conv = "converted"
                              => Field(record, e.name)
                                    = ItemConvert(ItemOf(TableAt(schema, e.table), e.name),
                                                  DataAt(data0, e.table)[e.name], 1)
                         /\ e.conv = "absent" => HasAttr(record, e.name)
           /\ (ret = Raise("KeyError") /\ AtTheEnd)
                 => \A name \in NamesOf(schema) :
                       \E k \in DOMAIN log : log[k].table = <<>> /\ log[k].name = name

\* C25 happens: the call failed on an unexpected key after alpha was given
\* its converted value, and the namespace is not what the caller passed.
C25_Witness ==
    /\ Failed
    /\ ret = Raise("KeyError")
    /\ "zz" \in DOMAIN data0
    /\ "alpha" \in DOMAIN data0
    /\ Field(ns0, "alpha") # Field(namespace, "alpha")
    /\ Field(namespace, "alpha") = ItemConvert(ItemOf(schema, "alpha"), data0["alpha"], 1)
    /\ HasAttr(namespace, "game")
    /\ namespace # ns0

====
